---------------------------- MODULE Spec2Model ----------------------------
(***************************************************************************)
(* Model of the undici traffic interceptor: the per-transaction dispatch   *)
(* handler TrafficInterceptor (src/unnamed/part_007, lines 425-697), the   *)
(* Bloom filter it shares between transactions (src/src/lib/bloom-filter.ts)*)
(* and the environment it talks to: the dispatcher that delivers the       *)
(* lifecycle callbacks, the PassThrough mirror writer and the two POSTs to *)
(* the traffic inspector.                                                  *)
(*                                                                         *)
(* JavaScript runs every handler to completion or to its first await, so   *)
(* each handler is one action; the only suspension point of the class is   *)
(* the await of 'drain' in onResponseData, whose continuation runs in the  *)
(* Drain action.  Promise reactions (then/catch callbacks) run as part of  *)
(* the action that settles the promise, or of the action that attaches     *)
(* them when the promise is already settled.                               *)
(***************************************************************************)
EXTENDS Integers, Sequences, FiniteSets, TLC

(***************************************************************************)
(* Bounds of the model.                                                    *)
(***************************************************************************)
\* transactions dispatched through one interceptor instance (SpecShared)
NumTx == 2
\* chunks the dispatcher delivers through onResponseData per transaction
MaxChunks == 2
\* width of a hash in bits; stands for the 64 bits of an xxh3 digest
HashBits == 3
\* add calls of the Bloom filter specification
MaxAdds == 2

Tx == 1..NumTx
\* request urls (origin + path): as many as there are transactions
Urls == 1..NumTx
Chunks == 1..MaxChunks

RECURSIVE Pow2(_)
Pow2(n) == IF n = 0 THEN 1 ELSE 2 * Pow2(n - 1)

\* the unsigned hashes of HashBits bits
Hashes == 0..(Pow2(HashBits) - 1)

(***************************************************************************)
(* BigInt arithmetic used by the Bloom filter.                             *)
(***************************************************************************)
RECURSIVE BitOr(_, _)
BitOr(a, b) ==
    IF a = 0 THEN b
    ELSE IF b = 0 THEN a
    ELSE (IF (a % 2 = 1) \/ (b % 2 = 1) THEN 1 ELSE 0)
         + 2 * BitOr(a \div 2, b \div 2)

ShiftLeft(a, n) == a * Pow2(n)
ShiftRight(a, n) == a \div Pow2(n)

(***************************************************************************)
(* Strings are sequences of one-character strings; a header map is the     *)
(* sequence of its << key, value >> pairs in the order of Object.keys.     *)
(***************************************************************************)
DigitChars == << "0", "1", "2", "3", "4", "5", "6", "7", "8", "9" >>

IsDigit(ch) == \E d \in 1..Len(DigitChars) : DigitChars[d] = ch

DigitValue(ch) == (CHOOSE d \in 1..Len(DigitChars) : DigitChars[d] = ch) - 1

\* a JavaScript number that may be NaN
NaN == [nan |-> TRUE, value |-> 0]
Num(n) == [nan |-> FALSE, value |-> n]

RECURSIVE DecimalValue(_)
DecimalValue(str) ==
    IF str = << >> THEN 0
    ELSE 10 * DecimalValue(SubSeq(str, 1, Len(str) - 1)) + DigitValue(str[Len(str)])

\* Number(str) for a string of decimal digits, the empty string and a string
\* holding another character
NumberOf(str) ==
    IF \A i \in 1..Len(str) : IsDigit(str[i]) THEN Num(DecimalValue(str)) ELSE NaN

\* BigInt.prototype.toString(): decimal digits, most significant first
RECURSIVE ToDecimal(_)
ToDecimal(n) ==
    IF n < 10 THEN << DigitChars[n + 1] >>
    ELSE Append(ToDecimal(n \div 10), DigitChars[(n % 10) + 1])

\* headers[key]: the values stored under exactly this key (none: undefined)
HeaderValues(headers, key) ==
    { headers[i][2] : i \in { j \in 1..Len(headers) : headers[j][1] = key } }

\* Number(headers[key])
NumberOfHeader(headers, key) ==
    IF HeaderValues(headers, key) = {} THEN NaN
    ELSE NumberOf(CHOOSE v \in HeaderValues(headers, key) : TRUE)

\* n || 0
OrZero(n) == IF n.nan \/ n.value = 0 THEN 0 ELSE n.value

ContentLength == << "c", "o", "n", "t", "e", "n", "t", "-", "l", "e", "n", "g", "t", "h" >>

UpperChars ==
    << "A", "B", "C", "D", "E", "F", "G", "H", "I", "J", "K", "L", "M",
       "N", "O", "P", "Q", "R", "S", "T", "U", "V", "W", "X", "Y", "Z" >>

LowerChars ==
    << "a", "b", "c", "d", "e", "f", "g", "h", "i", "j", "k", "l", "m",
       "n", "o", "p", "q", "r", "s", "t", "u", "v", "w", "x", "y", "z" >>

\* String.prototype.toLowerCase
toLowerCase(str) ==
    [i \in 1..Len(str) |->
        IF \E k \in 1..Len(UpperChars) : UpperChars[k] = str[i]
        THEN LowerChars[CHOOSE k \in 1..Len(UpperChars) : UpperChars[k] = str[i]]
        ELSE str[i]]

\* mutant: no prefix is ever recognised
startsWith_Never(str, prefix) == FALSE

\* String.prototype.startsWith, endsWith, indexOf (0-based, -1 when absent)
\* and slice
startsWith(str, prefix) ==
    Len(prefix) <= Len(str) /\ SubSeq(str, 1, Len(prefix)) = prefix

endsWith(str, suffix) ==
    /\ Len(suffix) <= Len(str)
    /\ SubSeq(str, Len(str) - Len(suffix) + 1, Len(str)) = suffix

indexOf(str, ch, start) ==
    LET found == { i \in start..(Len(str) - 1) : str[i + 1] = ch }
    IN  IF found = {} THEN -1
        ELSE CHOOSE i \in found : \A j \in found : i <= j

slice(str, start, end) == SubSeq(str, start + 1, end)

\* Array.prototype.includes for a list of strings
includes(list, str) == \E i \in 1..Len(list) : list[i] = str

\* a value that may be undefined: a string, a list, a header map
Undefined == [defined |-> FALSE, val |-> << >>]
Def(v) == [defined |-> TRUE, val |-> v]

\* !x for a string or undefined: undefined and the empty string are falsy
FalsyStr(x) == ~x.defined \/ x.val = << >>

Http == << "h", "t", "t", "p", ":", "/", "/" >>
Https == << "h", "t", "t", "p", "s", ":", "/", "/" >>

(***************************************************************************)
(* extractDomain and extractOrigin (src/src/lib/bloom-filter.ts 95-121).   *)
(***************************************************************************)
\* mutant: the port is kept
extractDomain_KeepsPort(origin) ==
    IF FalsyStr(origin) THEN Undefined
    ELSE LET start == IF startsWith(origin.val, Http) THEN Len(Http)
                      ELSE IF startsWith(origin.val, Https) THEN Len(Https)
                      ELSE 0
         IN  Def(<< "." >> \o slice(origin.val, start, Len(origin.val)))

extractDomain(origin) ==
    IF FalsyStr(origin) THEN Undefined
    ELSE LET start == IF startsWith(origin.val, Http) THEN Len(Http)
                      ELSE IF startsWith(origin.val, Https) THEN Len(Https)
                      ELSE 0
             end == indexOf(origin.val, ":", start)
         IN  IF end # -1
             THEN Def(<< "." >> \o slice(origin.val, start, end))
             ELSE Def(<< "." >> \o slice(origin.val, start, Len(origin.val)))

\* headers[key] for a header map whose values are strings
HeaderOf(headers, key) ==
    IF HeaderValues(headers, key) = {} THEN Undefined
    ELSE Def(CHOOSE v \in HeaderValues(headers, key) : TRUE)

UpperOrigin == << "O", "r", "i", "g", "i", "n" >>
LowerOrigin == << "o", "r", "i", "g", "i", "n" >>

extractOrigin(origin, headers) ==
    IF ~headers.defined THEN origin
    ELSE IF ~FalsyStr(HeaderOf(headers.val, UpperOrigin))
    THEN HeaderOf(headers.val, UpperOrigin)
    ELSE IF ~FalsyStr(HeaderOf(headers.val, LowerOrigin))
    THEN HeaderOf(headers.val, LowerOrigin)
    ELSE origin

(***************************************************************************)
(* interceptByDomain (src/unnamed/part_008 142-158).                       *)
(***************************************************************************)
interceptByDomain(domain, matchingDomains) ==
    IF ~matchingDomains.defined THEN TRUE
    ELSE IF FalsyStr(domain) THEN FALSE
    ELSE \E i \in 1..Len(matchingDomains.val) :
            endsWith(domain.val, matchingDomains.val[i])

(***************************************************************************)
(* parse of the cookie package: the names of the name=value pairs of a     *)
(* Cookie header.  The pairs are separated by ';', a pair without '=' is   *)
(* skipped, the name is what precedes the first '=' without the blanks     *)
(* around it.                                                              *)
(***************************************************************************)
RECURSIVE Trim(_)
Trim(str) ==
    IF str = << >> THEN str
    ELSE IF str[1] = " " THEN Trim(SubSeq(str, 2, Len(str)))
    ELSE IF str[Len(str)] = " " THEN Trim(SubSeq(str, 1, Len(str) - 1))
    ELSE str

RECURSIVE parseCookie(_)
parseCookie(str) ==
    IF str = << >> THEN {}
    ELSE LET semi == indexOf(str, ";", 0)
             endIdx == IF semi = -1 THEN Len(str) ELSE semi
             pair == slice(str, 0, endIdx)
             eqIdx == indexOf(pair, "=", 0)
         IN  (IF eqIdx = -1 THEN {} ELSE { Trim(slice(pair, 0, eqIdx)) })
             \cup parseCookie(slice(str, endIdx + 1, Len(str)))

\* mutant: the cookie names are compared as they are written
HasSessionCookie_CaseSensitive(value, skippingCookieSessionIds) ==
    \E id \in parseCookie(value) : includes(skippingCookieSessionIds, id)

\* Object.keys(cookies).some(id => skippingCookieSessionIds.includes(id.toLowerCase()))
HasSessionCookie(value, skippingCookieSessionIds) ==
    \E id \in parseCookie(value) : includes(skippingCookieSessionIds, toLowerCase(id))

(***************************************************************************)
(* The default predicates (src/unnamed/part_008 63-139) on a context c.    *)
(***************************************************************************)
Get == << "G", "E", "T" >>
Cookie == << "c", "o", "o", "k", "i", "e" >>
SetCookie == << "s", "e", "t", "-", "c", "o", "o", "k", "i", "e" >>

\* mutant: the header keys are compared as they are written
RequestHeaderDrops_CaseSensitive(headers, i, options) ==
    LET header == headers[i][1]
    IN  \/ includes(options.skippingRequestHeaders, header)
        \/ /\ header = Cookie
           /\ HasSessionCookie(headers[i][2], options.skippingCookieSessionIds)

\* the body of the loop over Object.keys(context.request.headers): TRUE when
\* the i-th key makes the predicate return false
RequestHeaderDrops(headers, i, options) ==
    LET header == toLowerCase(headers[i][1])
    IN  \/ includes(options.skippingRequestHeaders, header)
        \/ /\ header = Cookie
           /\ HasSessionCookie(headers[i][2], options.skippingCookieSessionIds)

RECURSIVE RequestHeadersPass(_, _, _)
RequestHeadersPass(headers, i, options) ==
    IF i > Len(headers) THEN TRUE
    ELSE IF RequestHeaderDrops(headers, i, options) THEN FALSE
    ELSE RequestHeadersPass(headers, i + 1, options)

\* mutant: the method is compared without regard to letter case
IsGet_AnyCase(method) == toLowerCase(method) = toLowerCase(Get)

\* context.request.method === INTERCEPT_REQUEST_METHOD_GET
IsGet(method) == method = Get

interceptRequest(c) ==
    IF ~IsGet(c.request.method) THEN FALSE
    ELSE IF ~interceptByDomain(c.request.domain, c.options.matchingDomains) THEN FALSE
    ELSE IF ~c.request.headers.defined THEN TRUE
    ELSE RequestHeadersPass(c.request.headers.val, 1, c.options)

\* mutant: a response as large as maxResponseSize is rejected too
TooLarge_OrEqual(headers, options) ==
    LET n == NumberOfHeader(headers, ContentLength)
    IN  ~n.nan /\ n.value >= options.maxResponseSize

\* Number(context.response.headers['content-length']) > maxResponseSize
TooLarge(headers, options) ==
    LET n == NumberOfHeader(headers, ContentLength)
    IN  ~n.nan /\ n.value > options.maxResponseSize

\* mutant: the skipping list is not consulted
ResponseHeaderSkipped_Never(header, options) == FALSE

\* context.options.skippingResponseHeaders.includes(header)
ResponseHeaderSkipped(header, options) ==
    includes(options.skippingResponseHeaders, header)

\* the loop over Object.keys(context.response.headers) from the i-th key on,
\* followed by the test of hasContentLength
RECURSIVE ResponseHeadersPass(_, _, _, _)
ResponseHeadersPass(headers, i, hasContentLength, options) ==
    IF i > Len(headers) THEN hasContentLength
    ELSE LET header == toLowerCase(headers[i][1])
         IN  IF ResponseHeaderSkipped(header, options) THEN FALSE
             ELSE IF header = SetCookie
             THEN IF \E v \in HeaderValues(headers, SetCookie) :
                        HasSessionCookie(v, options.skippingCookieSessionIds)
                  THEN FALSE
                  ELSE ResponseHeadersPass(headers, i + 1, hasContentLength, options)
             ELSE IF header = ContentLength
             THEN IF TooLarge(headers, options) THEN FALSE
                  ELSE ResponseHeadersPass(headers, i + 1, TRUE, options)
             ELSE ResponseHeadersPass(headers, i + 1, hasContentLength, options)

\* context.options.interceptResponseStatusCodes(context.response.statusCode)
StatusAccepted(code, options) == code \in options.interceptResponseStatusCodes

interceptResponse(c) ==
    IF ~StatusAccepted(c.response.statusCode, c.options) THEN FALSE
    ELSE ResponseHeadersPass(c.response.headers, 1, FALSE, c.options)

(***************************************************************************)
(* BloomFilter (src/src/lib/bloom-filter.ts).                              *)
(***************************************************************************)
\* constructor: bitArraySize m and numHashFunctions k for a few
\* (expectedElements, falsePositiveRate in percent) pairs, computed with
\* m = ceil(-(n * ln p) / (ln 2)^2) and k = ceil((m / n) * ln 2)
BloomSizing ==
    { [size |-> 1, errorRatePct |-> 50, bitArraySize |-> 2, numHashFunctions |-> 2],
      [size |-> 3, errorRatePct |-> 50, bitArraySize |-> 5, numHashFunctions |-> 2],
      [size |-> 1, errorRatePct |-> 25, bitArraySize |-> 3, numHashFunctions |-> 3],
      [size |-> 2, errorRatePct |-> 10, bitArraySize |-> 10, numHashFunctions |-> 4] }

\* the sizings used by the interceptor specifications
InterceptorSizing == { c \in BloomSizing : c.errorRatePct = 50 }

\* one rotation step of getPositions: (currentHash << 1) | (currentHash >> 63)
RotateStep(currentHash) ==
    BitOr(ShiftLeft(currentHash, 1), ShiftRight(currentHash, HashBits - 1))

RECURSIVE PositionsFrom(_, _, _)
PositionsFrom(currentHash, i, cfg) ==
    IF i >= cfg.numHashFunctions THEN << >>
    ELSE LET h == RotateStep(currentHash)
         IN  << h % cfg.bitArraySize >> \o PositionsFrom(h, i + 1, cfg)

getPositions(hash, cfg) == PositionsFrom(hash, 0, cfg)

\* mutant: bitArray[byteIndex] = (1 << bitOffset), an assignment instead of |=
setBit_Assign(bits, position) ==
    { p \in bits : p \div 8 # position \div 8 } \cup {position}

\* the bit array is the set of the positions whose bit is 1
setBit(bits, position) == bits \cup {position}

getBit(bits, position) == position \in bits

RECURSIVE SetAll(_, _)
SetAll(bits, positions) ==
    IF positions = << >> THEN bits
    ELSE SetAll(setBit(bits, Head(positions)), Tail(positions))

\* mutant: the loop of add stops one position short
BloomAdd_SkipLast(bits, hash, cfg) ==
    LET positions == getPositions(hash, cfg)
    IN  SetAll(bits, SubSeq(positions, 1, Len(positions) - 1))

BloomAdd(bits, hash, cfg) == SetAll(bits, getPositions(hash, cfg))

BloomHas(bits, hash, cfg) ==
    LET positions == getPositions(hash, cfg)
    IN  \A i \in 1..Len(positions) : getBit(bits, positions[i])


(***************************************************************************)
(* xxh3.Xxh3.withSeed().update(url).digest(): a fixed function of the url. *)
(* Two stand-ins are checked: one that gives every url its own digest and  *)
(* one under which all urls collide.                                       *)
(***************************************************************************)
HashFunctions ==
    { [u \in Urls |-> (3 * u) % Pow2(HashBits)],
      [u \in Urls |-> Pow2(HashBits) - 2] }

\* hasher.digest() for the updates since withSeed() or reset(): a fixed
\* function of the sequence of updates
UpdateCode(update) ==
    IF update[1] = "chunk" THEN update[2] ELSE MaxChunks + update[2]

RECURSIVE Digest(_)
Digest(updates) ==
    IF updates = << >> THEN 0
    ELSE (3 * Digest(SubSeq(updates, 1, Len(updates) - 1))
            + UpdateCode(updates[Len(updates)])) % Pow2(HashBits)

\* the responses delivered to the observed transaction: status code and
\* headers with the keys in lower case, as undici parses them
Responses ==
    { [statusCode |-> 200, headers |-> << << ContentLength, << "1", "2" >> >> >>],
      [statusCode |-> 200, headers |-> << >>],
      [statusCode |-> 404, headers |-> << << ContentLength, << "0" >> >> >>],
      [statusCode |-> 204, headers |-> << << ContentLength, << "7", "x" >> >> >>] }

\* the response of the transactions of SpecShared
PlainResponse ==
    [statusCode |-> 200, headers |-> << << ContentLength, << "0" >> >> >>]

(***************************************************************************)
(* State.                                                                  *)
(***************************************************************************)
VARIABLES
    filterCfg,      \* sizing of the interceptor's BloomFilter (bitArraySize, numHashFunctions)
    bitArray,       \* BloomFilter.bitArray
    addedHashes,    \* history: the hashes add was called with
    lastHas,        \* history: argument and result of the last has call of SpecBloom
    lastCall,       \* history: the last direct call of a utility function
    creation,       \* the last createTrafficInterceptor call: the caller's options object and what was built
    hashOf,         \* the xxh3 digest of each url
    txn             \* per transaction: the TrafficInterceptor instance and its environment

vars == << filterCfg, bitArray, addedHashes, lastHas, lastCall, creation, hashOf, txn >>

\* a tri-state flag of InterceptorContext: boolean | undefined
\* no utility function was called directly yet
NoCall == [fn |-> "none", args |-> << >>, result |-> Undefined]

TriState == {"undefined", "true", "false"}

ToFlag(b) == IF b THEN "true" ELSE "false"

\* JavaScript truthiness of a tri-state flag: if (flag) ...
Truthy(flag) == flag = "true"

\* mutant: the flag is tested with === undefined instead of !flag
Falsy_OnlyUndefined(flag) == flag = "undefined"

\* if (!flag) ...
Falsy(flag) == ~Truthy(flag)

\* the dispatch options and the interceptor options of a transaction that
\* goes through custom predicates; the lists that only the default
\* predicates read are left empty
PlainDispatchOptions ==
    [method |-> Get, headers |-> Def(<< >>), origin |-> Def(<< "a", ".", "b" >>),
     path |-> Undefined, query |-> Undefined]

PlainOptions ==
    [matchingDomains |-> Undefined,
     skippingRequestHeaders |-> << >>,
     skippingCookieSessionIds |-> << >>,
     skippingResponseHeaders |-> << >>,
     maxResponseSize |-> 12,
     interceptResponseStatusCodes |-> {}]

\* the instance built by the constructor, before dispatchOptions are read
NewInterceptor ==
    [ phase |-> "none",                 \* position of the dispatcher in the lifecycle
      url |-> 0,                        \* dispatchOptions: origin + path
      nData |-> 0,                      \* chunks delivered so far
      interceptRequest |-> "undefined",
      interceptResponse |-> "undefined",
      sendMeta |-> "undefined",
      sendBody |-> "undefined",
      hash |-> -1,                      \* context.request.hash
      hasher |-> << >>,                 \* updates since withSeed() or reset()
      aborted |-> FALSE,
      abortHook |-> FALSE,              \* controller.abort is onRequestAbort
      writer |-> "none",                \* none | open | ended | destroyed
      needDrain |-> FALSE,              \* a write returned false, 'drain' not emitted yet
      written |-> << >>,                \* chunks written to the writer
      waiting |-> << >>,                \* chunks whose onResponseData awaits 'drain'
      bodySendController |-> "none",    \* none | live | aborted
      send |-> "none",                  \* body POST promise: none | pending | ok | bad | rejected
      sendHandlers |-> {},              \* reactions attached to send
      meta |-> "none",                  \* meta POST promise: none | pending | ok | bad | rejected
      metaHash |-> << >>,               \* what the hasher digested for the meta POST
      response |-> [statusCode |-> -1, headers |-> << >>],  \* context.response
      dispatchOptions |-> PlainDispatchOptions,
      options |-> PlainOptions,
      request |-> [method |-> << >>, headers |-> Def(<< >>),
                   origin |-> Undefined, domain |-> Undefined],  \* context.request
      metaBody |-> << >>,               \* JSON bodies POSTed to pathSendMeta
      bodyPosts |-> 0,                  \* history: POSTs issued to pathSendBody
      metaPosts |-> 0,                  \* history: POSTs issued to pathSendMeta
      errLog |-> {},                    \* messages logged at error level
      unhandled |-> FALSE,              \* a promise rejected with no rejection handler
      delivered |-> << >>,              \* history: callbacks delivered by the dispatcher
      host |-> << >> ]                  \* history: callbacks forwarded to the host handler

Put(t, c) == txn' = [txn EXCEPT ![t] = c]

\* a callback with its arguments
Event(name, arg) == << name, arg >>

\* this.handler.onX?.(...) of a callback the dispatcher has just delivered
Forward(c, ev) ==
    [c EXCEPT !.delivered = Append(@, ev), !.host = Append(@, ev)]

\* the callback is delivered and returns (or suspends) without forwarding
Deliver(c, ev) == [c EXCEPT !.delivered = Append(@, ev)]

(***************************************************************************)
(* InterceptedDispatch: new TrafficInterceptor(dispatchOptions, ...)       *)
(***************************************************************************)
DispatchWith(t, u, dispatchOptions, options) ==
    /\ txn[t].phase = "none"
    /\ Put(t, [NewInterceptor EXCEPT !.phase = "idle", !.url = u,
                                     !.dispatchOptions = dispatchOptions,
                                     !.options = options])
    /\ UNCHANGED << filterCfg, bitArray, addedHashes, lastHas, lastCall, creation, hashOf >>

Dispatch(t, u) == DispatchWith(t, u, PlainDispatchOptions, PlainOptions)

(***************************************************************************)
(* onRequestAbort, installed as controller.abort by onRequestStart         *)
(***************************************************************************)
DestroyWriter(w) == IF w \in {"open", "ended"} THEN "destroyed" ELSE w

\* mutant: one AbortController and one teardown for the whole interceptor
OnRequestAbort_AbortsAll(t) ==
    LET c == txn[t] IN
    /\ c.abortHook
    /\ c.phase \in {"started", "responding"}
    /\ txn' = [s \in Tx |->
                 [txn[s] EXCEPT !.writer = DestroyWriter(@),
                                !.bodySendController = IF @ = "none" THEN @ ELSE "aborted",
                                !.aborted = IF s = t THEN TRUE ELSE @]]
    /\ UNCHANGED << filterCfg, bitArray, addedHashes, lastHas, lastCall, creation, hashOf >>

OnRequestAbort(t) ==
    LET c == txn[t] IN
    /\ c.abortHook
    /\ c.phase \in {"started", "responding"}
    /\ Put(t, [c EXCEPT !.writer = DestroyWriter(@),
                        !.bodySendController = IF @ = "none" THEN @ ELSE "aborted",
                        !.aborted = TRUE])
    /\ UNCHANGED << filterCfg, bitArray, addedHashes, lastHas, lastCall, creation, hashOf >>

(***************************************************************************)
(* onRequestStart; admit is the value of this.interceptRequest(context)    *)
(***************************************************************************)
\* mutant: a Bloom miss sets sendBody and leaves sendMeta as it was
DedupFlags_MissLeavesMeta(hit) ==
    IF hit THEN [sendMeta |-> "true", sendBody |-> "false"]
    ELSE [sendMeta |-> "undefined", sendBody |-> "true"]

\* mutant: a Bloom hit drops the transaction altogether, meta included
DedupFlags_HitDropsMeta(hit) ==
    IF hit THEN [sendMeta |-> "false", sendBody |-> "false"]
    ELSE [sendMeta |-> "true", sendBody |-> "true"]

\* the flags set after this.bloomFilter.has(this.context.request.hash)
DedupFlags(hit) ==
    IF hit THEN [sendMeta |-> "true", sendBody |-> "false"]
    ELSE [sendMeta |-> "true", sendBody |-> "true"]

\* context.request as onRequestStart fills it from the dispatch options
ReadRequest(c) ==
    LET origin == extractOrigin(c.dispatchOptions.origin, c.dispatchOptions.headers)
    IN  [c EXCEPT !.request =
            [origin |-> origin,
             domain |-> IF c.options.matchingDomains.defined
                        THEN extractDomain(origin) ELSE Undefined,
             headers |-> c.dispatchOptions.headers,
             method |-> c.dispatchOptions.method]]

OnRequestStart(t, admit) ==
    LET c == txn[t]
        digest == hashOf[c.url]
        ev == Event("onRequestStart", 0)
        hooked == [ReadRequest(c) EXCEPT !.phase = "started", !.abortHook = TRUE,
                                         !.interceptRequest = ToFlag(admit)]
    IN
    /\ c.phase = "idle"
    /\ IF Falsy(ToFlag(admit))
       THEN /\ Put(t, Forward([hooked EXCEPT !.sendBody = "false",
                                              !.sendMeta = "false"], ev))
            /\ UNCHANGED << bitArray, addedHashes >>
       ELSE LET hashed == [hooked EXCEPT !.hash = digest,
                                            !.hasher = Append(@, << "url", c.url >>)]
                hit == BloomHas(bitArray, digest, filterCfg)
                flagged == [hashed EXCEPT !.sendMeta = DedupFlags(hit).sendMeta,
                                          !.sendBody = DedupFlags(hit).sendBody]
            IN  /\ IF hit
                   THEN UNCHANGED << bitArray, addedHashes >>
                   ELSE /\ bitArray' = BloomAdd(bitArray, digest, filterCfg)
                        /\ addedHashes' = addedHashes \cup {digest}
                /\ Put(t, Forward(flagged, ev))
    /\ UNCHANGED << filterCfg, lastHas, lastCall, creation, hashOf >>

\* onRequestStart of an interceptor with the default request predicate
OnRequestStartDefault(t) ==
    OnRequestStart(t, interceptRequest(ReadRequest(txn[t])))

(***************************************************************************)
(* onResponseStart; admit is the value of this.interceptResponse(context)  *)
(* for the delivered status code and headers                               *)
(***************************************************************************)
\* mutant: the updates of the request url stay in the hasher
ResetHasher_Keeps(hasher) == hasher

\* this.context.hasher.reset()
ResetHasher(hasher) == << >>

\* mutant: the writer is created and the body POST is not issued
OpenMirror_NoRequest(c) ==
    [c EXCEPT !.writer = "open",
              !.needDrain = FALSE,
              !.bodySendController = "live"]

\* if (this.context.sendBody): the PassThrough writer, the AbortController
\* and the body POST with its catch handler
OpenMirror(c) ==
    [c EXCEPT !.writer = "open",
              !.needDrain = FALSE,
              !.bodySendController = "live",
              !.send = "pending",
              !.sendHandlers = {"catch1"},
              !.bodyPosts = @ + 1]

OnResponseStart(t, admit, response) ==
    LET c == txn[t]
        ev == Event("onResponseStart", response.statusCode)
        r == [c EXCEPT !.phase = "responding", !.response = response]
    IN
    /\ c.phase = "started"
    /\ IF Falsy(c.interceptRequest)
       THEN Put(t, Forward(r, ev))
       ELSE IF Falsy(ToFlag(admit))
       THEN Put(t, Forward([r EXCEPT !.interceptResponse = "false"], ev))
       ELSE LET a == [r EXCEPT !.interceptResponse = "true"]
                b == IF Truthy(c.sendBody) THEN OpenMirror(a) ELSE a
            IN  Put(t, Forward([b EXCEPT !.hasher = ResetHasher(@)], ev))
    /\ UNCHANGED << filterCfg, bitArray, addedHashes, lastHas, lastCall, creation, hashOf >>

\* onResponseStart of an interceptor with the default response predicate
OnResponseStartDefault(t, response) ==
    OnResponseStart(t, interceptResponse([txn[t] EXCEPT !.response = response]),
                    response)

(***************************************************************************)
(* onResponseData; writeOk is what this.writer.write(chunk) returns        *)
(***************************************************************************)
\* if (!this.context.interceptResponse || this.aborted): forward and return
DataPassThrough(c) == Falsy(c.interceptResponse) \/ c.aborted

OnResponseData(t, writeOk) ==
    LET c == txn[t]
        chunk == c.nData + 1
        ev == Event("onResponseData", chunk)
        d == [c EXCEPT !.nData = chunk]
    IN
    /\ c.phase = "responding"
    /\ c.nData < MaxChunks
    /\ IF DataPassThrough(c)
       THEN /\ writeOk
            /\ Put(t, Forward(d, ev))
       ELSE LET u == IF Truthy(c.sendMeta)
                     THEN [d EXCEPT !.hasher = Append(@, << "chunk", chunk >>)]
                     ELSE d
            IN  IF Truthy(c.sendBody) /\ c.writer \notin {"none", "destroyed"}
                THEN LET w == [u EXCEPT !.written = Append(@, chunk)]
                     IN  IF writeOk
                         THEN Put(t, Forward(w, ev))
                         ELSE Put(t, Deliver([w EXCEPT !.needDrain = TRUE,
                                                       !.waiting = Append(@, chunk)], ev))
                ELSE /\ writeOk
                     /\ Put(t, Forward(u, ev))
    /\ UNCHANGED << filterCfg, bitArray, addedHashes, lastHas, lastCall, creation, hashOf >>

(***************************************************************************)
(* The PassThrough emits 'drain': every onResponseData suspended at        *)
(* await new Promise(resolve => this.writer?.once('drain', resolve))       *)
(* resumes, in the order of suspension, and forwards its chunk.  A writer  *)
(* that is ending or destroyed emits no 'drain', and nothing reads the     *)
(* writer once its POST has failed.                                        *)
(***************************************************************************)
RECURSIVE ForwardAll(_, _)
ForwardAll(hostSeq, chunks) ==
    IF chunks = << >> THEN hostSeq
    ELSE ForwardAll(Append(hostSeq, Event("onResponseData", Head(chunks))), Tail(chunks))

Drain(t) ==
    LET c == txn[t] IN
    /\ c.writer = "open"
    /\ c.needDrain
    /\ c.send # "rejected"
    /\ Put(t, [c EXCEPT !.needDrain = FALSE,
                        !.host = ForwardAll(@, c.waiting),
                        !.waiting = << >>])
    /\ UNCHANGED << filterCfg, bitArray, addedHashes, lastHas, lastCall, creation, hashOf >>


(***************************************************************************)
(* onResponseEnd                                                           *)
(***************************************************************************)
\* the reactions of this.send.then(onFulfilled, onRejected) of onResponseEnd
EndThenLog(sendState) ==
    CASE sendState = "bad" -> {"error sending body"}
      [] sendState = "rejected" -> {"error finalizing body send"}
      [] OTHER -> {}

\* mutant: onResponseEnd does not look at this.aborted
EndPassThrough_IgnoresAborted(c) == Falsy(c.interceptResponse)

\* mutant: onResponseEnd does not look at interceptResponse
EndPassThrough_IgnoresResponse(c) == c.aborted

\* if (!this.context.interceptResponse || this.aborted): forward and return
EndPassThrough(c) == Falsy(c.interceptResponse) \/ c.aborted

\* the JSON body of the meta POST
MetaBody(c) ==
    [ url |-> c.url,
      code |-> c.response.statusCode,
      bodyHash |-> ToDecimal(Digest(c.hasher)),
      bodySize |-> OrZero(NumberOfHeader(c.response.headers, ContentLength)) ]

OnResponseEnd(t) ==
    LET c == txn[t]
        ev == Event("onResponseEnd", 0)
        e == [c EXCEPT !.phase = "ended"]
    IN
    /\ c.phase = "responding"
    /\ IF EndPassThrough(c)
       THEN Put(t, Forward(e, ev))
       ELSE LET b == IF Truthy(c.sendBody) /\ c.writer \notin {"none", "destroyed"}
                     THEN [e EXCEPT !.writer = "ended",
                                    !.sendHandlers = @ \cup {"endThen"},
                                    !.errLog = @ \cup EndThenLog(c.send)]
                     ELSE e
                m == IF Truthy(c.sendMeta)
                     THEN [b EXCEPT !.metaHash = c.hasher,
                                    !.metaBody = Append(@, MetaBody(c)),
                                    !.meta = "pending",
                                    !.metaPosts = @ + 1]
                     ELSE b
            IN  Put(t, Forward(m, ev))
    /\ UNCHANGED << filterCfg, bitArray, addedHashes, lastHas, lastCall, creation, hashOf >>

(***************************************************************************)
(* onRequestUpgrade                                                        *)
(***************************************************************************)
\* mutant: the upgrade is swallowed
OnRequestUpgrade_NoForward(t) ==
    LET c == txn[t] IN
    /\ c.phase = "started"
    /\ Put(t, Deliver([c EXCEPT !.phase = "upgraded"], Event("onRequestUpgrade", 0)))
    /\ UNCHANGED << filterCfg, bitArray, addedHashes, lastHas, lastCall, creation, hashOf >>

OnRequestUpgrade(t) ==
    LET c == txn[t] IN
    /\ c.phase = "started"
    /\ Put(t, Forward([c EXCEPT !.phase = "upgraded"], Event("onRequestUpgrade", 0)))
    /\ UNCHANGED << filterCfg, bitArray, addedHashes, lastHas, lastCall, creation, hashOf >>

(***************************************************************************)
(* onResponseError                                                         *)
(***************************************************************************)
OnResponseError(t) ==
    LET c == txn[t]
        ev == Event("onResponseError", 0)
        d == [c EXCEPT !.phase = "errored",
                       !.errLog = @ \cup {"onResponseError"},
                       !.writer = DestroyWriter(@)]
        s == IF c.send # "none"
             THEN [d EXCEPT !.sendHandlers = @ \cup {"catch2"},
                            !.errLog = @ \cup (IF c.send = "rejected"
                                               THEN {"error sending body #2"} ELSE {})]
             ELSE d
    IN
    /\ c.phase \in {"started", "responding"}
    /\ Put(t, Forward(s, ev))
    /\ UNCHANGED << filterCfg, bitArray, addedHashes, lastHas, lastCall, creation, hashOf >>

(***************************************************************************)
(* The body POST (this.send) settles.  outcome: ok (status <= 299), bad    *)
(* (status > 299) or rejected.  A POST whose signal was aborted or whose   *)
(* body stream was destroyed can only reject.  On a rejection the client   *)
(* may destroy the request body stream (destroysBody).                     *)
(***************************************************************************)
Cancelled(c) == c.bodySendController = "aborted" \/ c.writer = "destroyed"

\* what the reactions attached to this.send log when it settles
SendReactionLog(handlers, outcome) ==
    (IF outcome = "rejected" /\ "catch1" \in handlers
     THEN {"error sending body #1"} ELSE {})
    \cup (IF "endThen" \in handlers THEN EndThenLog(outcome) ELSE {})
    \cup (IF outcome = "rejected" /\ "catch2" \in handlers
          THEN {"error sending body #2"} ELSE {})

BodySettle(t, outcome, destroysBody) ==
    LET c == txn[t] IN
    /\ c.send = "pending"
    /\ Cancelled(c) => outcome = "rejected"
    /\ outcome # "rejected" => ~destroysBody
    /\ Put(t, [c EXCEPT !.send = outcome,
                        !.errLog = @ \cup SendReactionLog(c.sendHandlers, outcome),
                        !.unhandled = @ \/ (outcome = "rejected" /\ c.sendHandlers = {}),
                        !.writer = IF outcome = "rejected"
                                      /\ (destroysBody \/ "catch2" \in c.sendHandlers)
                                   THEN DestroyWriter(@) ELSE @])
    /\ UNCHANGED << filterCfg, bitArray, addedHashes, lastHas, lastCall, creation, hashOf >>

(***************************************************************************)
(* The meta POST of onResponseEnd settles; its then(onFulfilled,           *)
(* onRejected) logs a status above 299 and a rejection.                    *)
(***************************************************************************)
\* mutant: a failed meta POST empties the filter, so that the next transaction
\* with the same url is mirrored again
MetaSettle_ReopensDedup(t, outcome) ==
    LET c == txn[t] IN
    /\ c.meta = "pending"
    /\ Put(t, [c EXCEPT !.meta = outcome,
                        !.errLog = @ \cup (IF outcome = "ok" THEN {}
                                           ELSE {"error sending meta"})])
    /\ bitArray' = IF outcome = "ok" THEN bitArray ELSE {}
    /\ UNCHANGED << filterCfg, addedHashes, lastHas, lastCall, creation, hashOf >>

MetaSettle(t, outcome) ==
    LET c == txn[t] IN
    /\ c.meta = "pending"
    /\ Put(t, [c EXCEPT !.meta = outcome,
                        !.errLog = @ \cup (IF outcome = "ok" THEN {}
                                           ELSE {"error sending meta"})])
    /\ UNCHANGED << filterCfg, bitArray, addedHashes, lastHas, lastCall, creation, hashOf >>

(***************************************************************************)
(* Direct calls of the Bloom filter (SpecBloom).                           *)
(***************************************************************************)
BloomAddStep(hash) ==
    /\ Cardinality(addedHashes \cup {hash}) <= MaxAdds
    /\ bitArray' = BloomAdd(bitArray, hash, filterCfg)
    /\ addedHashes' = addedHashes \cup {hash}
    /\ UNCHANGED << filterCfg, lastHas, lastCall, creation, hashOf, txn >>

BloomHasStep(hash) ==
    /\ lastHas' = << hash, BloomHas(bitArray, hash, filterCfg) >>
    /\ UNCHANGED << filterCfg, bitArray, addedHashes, lastCall, creation, hashOf, txn >>

(***************************************************************************)
(* createTrafficInterceptor (src/unnamed/part_007, lines 699-751).         *)
(* A JavaScript value of an options property is a record: its kind, and    *)
(* its number (num, with nan), its string (str) or its elements (items).   *)
(* The error rate is counted in percent.                                   *)
(***************************************************************************)
JsValue(kind, nan, num, str, items) ==
    [kind |-> kind, nan |-> nan, num |-> num, str |-> str, items |-> items]

JsUndefined == JsValue("undefined", FALSE, 0, << >>, << >>)
JsNull == JsValue("null", FALSE, 0, << >>, << >>)
JsNaN == JsValue("number", TRUE, 0, << >>, << >>)
JsNumber(n) == JsValue("number", FALSE, n, << >>, << >>)
JsString(str) == JsValue("string", FALSE, 0, str, << >>)
JsArray(items) == JsValue("array", FALSE, 0, << >>, items)
JsFunction(name) == JsValue("function", FALSE, 0, name, << >>)

\* a plain object: items are its << key, value >> pairs
JsObject(items) == JsValue("object", FALSE, 0, << >>, items)

\* typeof v
typeof(v) == IF v.kind \in {"null", "array", "object"} THEN "object" ELSE v.kind

\* !v
JsFalsy(v) ==
    \/ v.kind \in {"undefined", "null"}
    \/ v.kind = "number" /\ (v.nan \/ v.num = 0)
    \/ v.kind = "string" /\ v.str = << >>

\* v ?? d
Nullish(v) == v.kind \in {"undefined", "null"}

\* typeof v !== 'number' || v <= 0
NotPositiveNumber(v) ==
    typeof(v) # "number" \/ (~v.nan /\ v.num <= 0)

\* src/unnamed/part_008, lines 6-33: the defaults
SKIPPING_REQUEST_HEADERS ==
    << << "c", "a", "c", "h", "e", "-", "c", "o", "n", "t", "r", "o", "l" >>,
       << "p", "r", "a", "g", "m", "a" >>,
       << "i", "f", "-", "n", "o", "n", "e", "-", "m", "a", "t", "c", "h" >>,
       << "i", "f", "-", "m", "o", "d", "i", "f", "i", "e", "d", "-", "s", "i", "n", "c", "e" >>,
       << "a", "u", "t", "h", "o", "r", "i", "z", "a", "t", "i", "o", "n" >>,
       << "p", "r", "o", "x", "y", "-", "a", "u", "t", "h", "o", "r", "i", "z", "a", "t", "i", "o", "n" >> >>

SKIPPING_RESPONSE_HEADERS ==
    << << "e", "t", "a", "g" >>,
       << "l", "a", "s", "t", "-", "m", "o", "d", "i", "f", "i", "e", "d" >>,
       << "e", "x", "p", "i", "r", "e", "s" >>,
       << "c", "a", "c", "h", "e", "-", "c", "o", "n", "t", "r", "o", "l" >>,
       << "a", "u", "t", "h", "o", "r", "i", "z", "a", "t", "i", "o", "n" >>,
       << "p", "r", "o", "x", "y", "-", "a", "u", "t", "h", "e", "n", "t", "i", "c", "a", "t", "e" >>,
       << "w", "w", "w", "-", "a", "u", "t", "h", "e", "n", "t", "i", "c", "a", "t", "e" >>,
       << "s", "e", "t", "-", "c", "o", "o", "k", "i", "e" >> >>

SKIPPING_COOKIE_SESSION_IDS ==
    << << "j", "s", "e", "s", "s", "i", "o", "n", "i", "d" >>,
       << "p", "h", "p", "s", "e", "s", "s", "i", "d" >>,
       << "a", "s", "p", ".", "n", "e", "t", "_", "s", "e", "s", "s", "i", "o", "n", "i", "d" >>,
       << "c", "o", "n", "n", "e", "c", "t", ".", "s", "i", "d" >>,
       << "s", "i", "d" >>,
       << "s", "s", "i", "d" >>,
       << "a", "u", "t", "h", "_", "t", "o", "k", "e", "n" >>,
       << "a", "c", "c", "e", "s", "s", "_", "t", "o", "k", "e", "n" >>,
       << "c", "s", "r", "f", "_", "t", "o", "k", "e", "n" >>,
       << "x", "s", "r", "f", "-", "t", "o", "k", "e", "n" >>,
       << "x", "-", "c", "s", "r", "f", "-", "t", "o", "k", "e", "n" >>,
       << "s", "e", "s", "s", "i", "o", "n" >>,
       << "r", "e", "f", "r", "e", "s", "h", "t", "o", "k", "e", "n" >>,
       << "t", "o", "k", "e", "n" >>,
       << "s", "e", "s", "s", "i", "o", "n", "i", "d" >>,
       << "c", "s", "r", "f", "t", "o", "k", "e", "n" >>,
       << "a", "u", "t", "h", "t", "o", "k", "e", "n" >>,
       << "a", "c", "c", "e", "s", "s", "t", "o", "k", "e", "n" >> >>

INTERCEPT_RESPONSE_STATUS_CODES == { code \in 100..599 : code > 199 /\ code < 300 }

DEFAULT_MAX_RESPONSE_SIZE == 5 * 1024 * 1024

\* the default parameter of createTrafficInterceptor (part_007, lines 375-391);
\* the error rate 0.1 is 10 percent
defaultTrafficInterceptorOptions ==
    [ bloomFilter |-> [defined |-> TRUE, size |-> JsNumber(100000), errorRate |-> JsNumber(10)],
      maxResponseSize |-> JsNumber(DEFAULT_MAX_RESPONSE_SIZE),
      trafficInspectorOptions |-> [defined |-> TRUE, url |-> JsString(<< >>)],
      labels |-> JsObject(<< >>),
      matchingDomains |-> JsUndefined,
      skippingRequestHeaders |-> JsUndefined,
      skippingResponseHeaders |-> JsUndefined,
      skippingCookieSessionIds |-> JsUndefined,
      interceptResponseStatusCodes |-> Def(INTERCEPT_RESPONSE_STATUS_CODES),
      interceptRequest |-> JsUndefined,
      interceptResponse |-> JsUndefined ]

\* the array of the strings of a list
JsStrings(list) == JsArray([i \in 1..Len(list) |-> JsString(list[i])])

\* the strings of an array of strings
Strings(v) == [i \in 1..Len(v.items) |-> v.items[i].str]

\* structuredClone(optionsRest) throws DataCloneError on a function: logger
\* and interceptResponseStatusCodes are taken out of optionsRest before the
\* clone, interceptRequest and interceptResponse are not
structuredCloneThrows(optionsRest) ==
    \/ optionsRest.interceptRequest.kind = "function"
    \/ optionsRest.interceptResponse.kind = "function"

\* new BloomFilter(size, errorRate): BigInt(this.bitArraySize) throws a
\* RangeError when the computed size is NaN
BloomFilterThrows(bloomFilter) == bloomFilter.size.nan \/ bloomFilter.errorRate.nan

Thrown(error) ==
    [ built |-> FALSE, thrown |-> error,
      validatedOptions |-> defaultTrafficInterceptorOptions,
      shared |-> {},
      sizing |-> CHOOSE c \in BloomSizing : \A d \in BloomSizing : c.bitArraySize <= d.bitArraySize ]

\* the interceptor returned: its validatedOptions, the names of the
\* properties of validatedOptions that are the caller's own arrays and not
\* clones of them, and the sizing of its BloomFilter
Built(options) ==
    [ built |-> TRUE, thrown |-> "none",
      validatedOptions |->
        [ options EXCEPT
            !.maxResponseSize =
                IF @.kind = "undefined" THEN defaultTrafficInterceptorOptions.maxResponseSize ELSE @,
            !.labels = IF JsFalsy(@) THEN defaultTrafficInterceptorOptions.labels ELSE @,
            !.skippingRequestHeaders =
                IF Nullish(@) THEN JsStrings(SKIPPING_REQUEST_HEADERS) ELSE @,
            !.skippingResponseHeaders =
                IF Nullish(@) THEN JsStrings(SKIPPING_RESPONSE_HEADERS) ELSE @,
            !.skippingCookieSessionIds =
                IF Nullish(@) THEN JsStrings(SKIPPING_COOKIE_SESSION_IDS) ELSE @,
            !.interceptResponseStatusCodes =
                IF @.defined THEN @ ELSE defaultTrafficInterceptorOptions.interceptResponseStatusCodes ],
      shared |-> { f \in {"skippingRequestHeaders", "skippingResponseHeaders",
                          "skippingCookieSessionIds"} : ~Nullish(options[f]) },
      sizing |-> CHOOSE c \in BloomSizing :
                    /\ c.size = options.bloomFilter.size.num
                    /\ c.errorRatePct = options.bloomFilter.errorRate.num ]

createTrafficInterceptor(options) ==
    LET bloomFilter == options.bloomFilter
        errorRate == bloomFilter.errorRate
        url == options.trafficInspectorOptions.url
        matchingDomains == options.matchingDomains
    IN  IF structuredCloneThrows(options)
        THEN Thrown("DataCloneError")
        ELSE IF ~bloomFilter.defined \/ NotPositiveNumber(bloomFilter.size)
        THEN Thrown("TRAFFIC_INTERCEPTOR_INVALID_BLOOM_FILTER_SIZE")
        ELSE IF \/ typeof(errorRate) # "number"
                \/ ~errorRate.nan /\ (errorRate.num <= 0 \/ errorRate.num >= 100)
        THEN Thrown("TRAFFIC_INTERCEPTOR_INVALID_BLOOM_FILTER_ERROR_RATE")
        ELSE IF options.maxResponseSize.kind # "undefined"
                /\ NotPositiveNumber(options.maxResponseSize)
        THEN Thrown("TRAFFIC_INTERCEPTOR_INVALID_MAX_RESPONSE_SIZE")
        ELSE IF \/ ~options.trafficInspectorOptions.defined
                \/ typeof(url) # "string"
                \/ Len(url.str) = 0
        THEN Thrown("TRAFFIC_INTERCEPTOR_INVALID_REQUEST_URL")
        ELSE IF /\ ~JsFalsy(matchingDomains)
                /\ \/ matchingDomains.kind # "array"
                   \/ Len(matchingDomains.items) = 0
                   \/ \E i \in 1..Len(matchingDomains.items) :
                         \/ typeof(matchingDomains.items[i]) # "string"
                         \/ Len(matchingDomains.items[i].str) = 0
        THEN Thrown("TRAFFIC_INTERCEPTOR_INVALID_SKIPPING_DOMAINS")
        ELSE IF BloomFilterThrows(bloomFilter)
        THEN Thrown("RangeError")
        ELSE Built(options)

NoCreation == [options |-> defaultTrafficInterceptorOptions, result |-> Thrown("none")]

\* a call of createTrafficInterceptor(options)
Create(options) ==
    /\ creation' = [options |-> options, result |-> createTrafficInterceptor(options)]
    /\ UNCHANGED << filterCfg, bitArray, addedHashes, lastHas, lastCall, hashOf, txn >>

(***************************************************************************)
(* Specifications.                                                         *)
(***************************************************************************)
RECURSIVE AddAll(_, _, _)
AddAll(bits, hashes, cfg) ==
    IF hashes = {} THEN bits
    ELSE LET h == CHOOSE x \in hashes : TRUE
         IN  AddAll(BloomAdd(bits, h, cfg), hashes \ {h}, cfg)

InitCommon ==
    /\ lastHas = << -1, FALSE >>
    /\ lastCall = NoCall
    /\ creation = NoCreation
    /\ hashOf \in HashFunctions
    /\ txn = [t \in Tx |-> NewInterceptor]

\* Spec: one transaction, observed with the whole environment (backpressure,
\* failing POSTs), through an interceptor whose filter already holds the
\* identities of the earlier transactions, which requested some of the urls.
Init ==
    /\ InitCommon
    /\ filterCfg \in InterceptorSizing
    /\ \E prior \in SUBSET Urls :
         /\ addedHashes = { hashOf[u] : u \in prior }
         /\ bitArray = AddAll({}, addedHashes, filterCfg)

\* the observed transaction: the first one
Observed == CHOOSE t \in Tx : \A s \in Tx : t <= s

Next ==
    \/ \E u \in Urls : Dispatch(Observed, u)
    \/ \E admit \in BOOLEAN : OnRequestStart(Observed, admit)
    \/ \E admit \in BOOLEAN, response \in Responses :
         OnResponseStart(Observed, admit, response)
    \/ \E writeOk \in BOOLEAN : OnResponseData(Observed, writeOk)
    \/ Drain(Observed)
    \/ OnResponseEnd(Observed)
    \/ OnRequestUpgrade(Observed)
    \/ OnResponseError(Observed)
    \/ OnRequestAbort(Observed)
    \/ \E outcome \in {"ok", "bad", "rejected"}, destroysBody \in BOOLEAN :
         BodySettle(Observed, outcome, destroysBody)
    \/ \E outcome \in {"ok", "bad", "rejected"} : MetaSettle(Observed, outcome)

Spec == Init /\ [][Next]_vars

\* SpecLive: Spec in which the dispatcher goes on delivering the callbacks of
\* a transaction until it is complete, a writer that can drain does, and
\* every POST in flight is answered or fails: no step that stays possible is
\* put off for ever.
SpecLive == Spec /\ WF_vars(Next)

\* SpecShared: NumTx transactions interleaved through one interceptor that
\* starts with an empty filter.  The responses carry no body chunk, the
\* collector has not answered yet and the host does not abort.
InitShared ==
    /\ InitCommon
    /\ filterCfg \in InterceptorSizing
    /\ addedHashes = {}
    /\ bitArray = {}

\* transactions are numbered in the order of their dispatch
DispatchNext(t, u) ==
    /\ \A s \in 1..(t - 1) : txn[s].phase # "none"
    /\ Dispatch(t, u)

NextShared ==
    \E t \in Tx :
        \/ \E u \in Urls : DispatchNext(t, u)
        \/ \E admit \in BOOLEAN : OnRequestStart(t, admit)
        \/ \E admit \in BOOLEAN : OnResponseStart(t, admit, PlainResponse)
        \/ OnResponseEnd(t)

SpecShared == InitShared /\ [][NextShared]_vars

\* SpecDefault: the observed transaction through an interceptor with the
\* default predicates; the dispatch options, the interceptor options and the
\* response are drawn from the sets below.
Methods == { Get, << "g", "e", "t" >>, << "P", "O", "S", "T" >> }

RequestHeaderMaps ==
    { Undefined,
      Def(<< >>),
      Def(<< << << "a", "c", "c", "e", "p", "t" >>, << "x" >> >> >>),
      Def(<< << << "P", "r", "a", "g", "m", "a" >>, << "x" >> >> >>),
      Def(<< << << "a", "c", "c", "e", "p", "t" >>, << "x" >> >>, << << "P", "R", "A", "G", "M", "A" >>, << "x" >> >> >>),
      Def(<< << << "P", "R", "A", "G", "M", "A" >>, << "x" >> >>, << << "a", "c", "c", "e", "p", "t" >>, << "x" >> >> >>),
      Def(<< << << "C", "o", "o", "k", "i", "e" >>, << "a", "=", "1", ";", " ", "S", "I", "D", "=", "2" >> >> >>),
      Def(<< << << "C", "O", "O", "K", "I", "E" >>, << "a", "=", "s", "i", "d", ";", "s", "i", "d", "x", "=", "1", ";", " ", "s", "i", "d" >> >> >>),
      Def(<< << << "c", "o", "o", "k", "i", "e" >>, << " ", "s", "i", "d", " ", "=", "1" >> >> >>),
      Def(<< << << "O", "r", "i", "g", "i", "n" >>, << "h", "t", "t", "p", ":", "/", "/", "c", ".", "d", ":", "8" >> >> >>),
      Def(<< << << "o", "r", "i", "g", "i", "n" >>, << "a", ".", "b" >> >> >>) }

Origins == { Def(<< "h", "t", "t", "p", ":", "/", "/", "a", ".", "b", ":", "8" >>), Def(<< "h", "t", "t", "p", "s", ":", "/", "/", "c", ".", "d" >>), Def(<< "x", ".", "a", ".", "b", ":", "8" >>) }

DomainLists == { Undefined, Def(<< << ".", "b" >> >>), Def(<< << ".", "x" >>, << ".", "x", ".", "a", ".", "b" >> >>) }

DispatchOptionsSet ==
    { [method |-> m, headers |-> h, origin |-> o, path |-> Undefined, query |-> Undefined] :
        m \in Methods, h \in RequestHeaderMaps, o \in Origins }

OptionsSet ==
    { [matchingDomains |-> d,
       skippingRequestHeaders |-> << << "p", "r", "a", "g", "m", "a" >> >>,
       skippingCookieSessionIds |-> << << "s", "i", "d" >> >>,
       skippingResponseHeaders |-> << << "e", "t", "a", "g" >> >>,
       maxResponseSize |-> 12,
       interceptResponseStatusCodes |-> { code \in 100..599 : code > 199 /\ code < 300 }] :
        d \in DomainLists }

\* response header objects as undici hands them to onResponseStart: parsed,
\* with lower-case keys
ResponseHeaderMaps ==
    { << >>,
      << << << "c", "o", "n", "t", "e", "n", "t", "-", "t", "y", "p", "e" >>, << "x" >> >> >>,
      << << << "c", "o", "n", "t", "e", "n", "t", "-", "l", "e", "n", "g", "t", "h" >>, << "1", "2" >> >> >>,
      << << << "c", "o", "n", "t", "e", "n", "t", "-", "l", "e", "n", "g", "t", "h" >>, << "1", "3" >> >> >>,
      << << << "c", "o", "n", "t", "e", "n", "t", "-", "l", "e", "n", "g", "t", "h" >>, << "7", "x" >> >> >>,
      << << << "e", "t", "a", "g" >>, << "x" >> >>, << << "c", "o", "n", "t", "e", "n", "t", "-", "l", "e", "n", "g", "t", "h" >>, << "5" >> >> >>,
      << << << "c", "o", "n", "t", "e", "n", "t", "-", "l", "e", "n", "g", "t", "h" >>, << "5" >> >>, << << "e", "t", "a", "g" >>, << "x" >> >> >>,
      << << << "c", "o", "n", "t", "e", "n", "t", "-", "t", "y", "p", "e" >>, << "x" >> >>, << << "c", "o", "n", "t", "e", "n", "t", "-", "l", "e", "n", "g", "t", "h" >>, << "0" >> >> >> }

DefaultResponses ==
    { [statusCode |-> code, headers |-> h] :
        code \in {199, 200, 299, 300}, h \in ResponseHeaderMaps }

FirstUrl == CHOOSE u \in Urls : \A v \in Urls : u <= v

NextDefault ==
    \/ \E d \in DispatchOptionsSet, o \in OptionsSet :
         DispatchWith(Observed, FirstUrl, d, o)
    \/ OnRequestStartDefault(Observed)
    \/ \E response \in DefaultResponses : OnResponseStartDefault(Observed, response)
    \/ OnResponseData(Observed, TRUE)
    \/ OnResponseEnd(Observed)

\* one interceptor with an empty filter: the sizing and the url digest play
\* no part in the predicates
InitDefault ==
    /\ InitShared
    /\ \A c \in InterceptorSizing : filterCfg.size <= c.size
    /\ \A u, v \in Urls : hashOf[u] = hashOf[v] => u = v

SpecDefault == InitDefault /\ [][NextDefault]_vars

\* SpecUtils: direct calls of the utility functions, as the unit tests make
\* them, on the arguments below.
Schemes == { << >>, Http, Https }
Hosts == { << "a" >>, << "a", ".", "b" >>, << "x", ".", "a", ".", "b" >>, << "c", ".", "d" >> }
Ports == { << >>, << ":", "8" >>, << ":", "8", "0" >> }

UtilDomains == { Undefined, Def(<< >>) } \cup { Def(<< "." >> \o h) : h \in Hosts }

UtilDomainLists ==
    { Undefined, Def(<< >>), Def(<< << ".", "b" >> >>), Def(<< << ".", "a" >> >>),
      Def(<< << ".", "x" >>, << ".", "a", ".", "b" >> >>), Def(<< << ".", "c", ".", "d" >>, << ".", "b" >> >>), Def(<< << ".", "x", ".", "a", ".", "b" >> >>) }

UtilHeaderMaps ==
    { Undefined, Def(<< >>), Def(<< << << "O", "r", "i", "g", "i", "n" >>, << "h", "t", "t", "p", ":", "/", "/", "c", ".", "d" >> >> >>), Def(<< << << "o", "r", "i", "g", "i", "n" >>, << "a", ".", "b", ":", "8" >> >> >>), Def(<< << << "a", "c", "c", "e", "p", "t" >>, << "x" >> >> >>),
      Def(<< << << "o", "r", "i", "g", "i", "n" >>, << "a", ".", "b", ":", "8" >> >>, << << "O", "r", "i", "g", "i", "n" >>, << "h", "t", "t", "p", ":", "/", "/", "c", ".", "d" >> >> >>),
      Def(<< << << "O", "R", "I", "G", "I", "N" >>, << "h", "t", "t", "p", ":", "/", "/", "c", ".", "d" >> >> >>),
      Def(<< << << "a", "c", "c", "e", "p", "t" >>, << "x" >> >>, << << "o", "R", "i", "g", "i", "n" >>, << "a", ".", "b", ":", "8" >> >> >>) }

CallInterceptByDomain(domain, matchingDomains) ==
    /\ lastCall' = [fn |-> "interceptByDomain",
                    args |-> << domain, matchingDomains >>,
                    result |-> interceptByDomain(domain, matchingDomains)]
    /\ UNCHANGED << filterCfg, bitArray, addedHashes, lastHas, creation, hashOf, txn >>

CallExtractDomain(origin, parts) ==
    /\ lastCall' = [fn |-> "extractDomain",
                    args |-> << origin, parts >>,
                    result |-> extractDomain(origin)]
    /\ UNCHANGED << filterCfg, bitArray, addedHashes, lastHas, creation, hashOf, txn >>

CallExtractOrigin(origin, headers) ==
    /\ lastCall' = [fn |-> "extractOrigin",
                    args |-> << origin, headers >>,
                    result |-> extractOrigin(origin, headers)]
    /\ UNCHANGED << filterCfg, bitArray, addedHashes, lastHas, creation, hashOf, txn >>

NextUtils ==
    \/ \E domain \in UtilDomains, matchingDomains \in UtilDomainLists :
         CallInterceptByDomain(domain, matchingDomains)
    \/ \E scheme \in Schemes, host \in Hosts, port \in Ports :
         CallExtractDomain(Def(scheme \o host \o port), << scheme, host, port >>)
    \/ \E origin \in { Undefined, Def(<< >>) } : CallExtractDomain(origin, << >>)
    \/ \E origin \in { Undefined } \cup { Def(Http \o h) : h \in Hosts },
          headers \in UtilHeaderMaps :
         CallExtractOrigin(origin, headers)

SpecUtils == InitDefault /\ [][NextUtils]_vars

\* SpecCreate: calls of createTrafficInterceptor on the options below, one
\* property group at a time taken from the values tried, the others valid.
CreateOptionsSet ==
    LET b == JsString(<< ".", "b" >>)
        sizes == { JsUndefined, JsString(<< "3" >>), JsNumber(0), JsNumber(-1),
                   JsNumber(1), JsNumber(3), JsNaN }
        errorRates == { JsUndefined, JsString(<< "5", "0" >>), JsNumber(0), JsNumber(100),
                        JsNumber(50), JsNaN }
        bloomFilters ==
            { [defined |-> FALSE, size |-> JsUndefined, errorRate |-> JsUndefined] } \cup
            { [defined |-> TRUE, size |-> n, errorRate |-> p] : n \in sizes, p \in errorRates }
        maxResponseSizes ==
            { JsUndefined, JsNull, JsString(<< "1", "2" >>), JsNumber(0), JsNumber(-1),
              JsNumber(12), JsNaN }
        inspectors ==
            { [defined |-> FALSE, url |-> JsUndefined] } \cup
            { [defined |-> TRUE, url |-> u] :
                u \in { JsUndefined, JsNumber(1), JsString(<< >>), JsString(<< "h", "t", "t", "p", ":", "/", "/", "t" >>) } }
        domainLists ==
            { JsUndefined, JsNull, JsString(<< >>), b, JsArray(<< >>), JsArray(<< b >>),
              JsArray(<< b, JsString(<< >>) >>), JsArray(<< b, JsNumber(5) >>) }
        predicates == { JsUndefined, JsFunction(<< "f" >>) }
    IN  { [ defaultTrafficInterceptorOptions EXCEPT
              !.bloomFilter = bf, !.maxResponseSize = m, !.trafficInspectorOptions = i,
              !.matchingDomains = d, !.interceptRequest = q, !.interceptResponse = r ] :
            bf \in bloomFilters, m \in maxResponseSizes, i \in inspectors,
            d \in domainLists, q \in predicates, r \in predicates }

\* one call is observed
NextCreate ==
    /\ creation = NoCreation
    /\ \E options \in CreateOptionsSet : Create(options)

SpecCreate == InitDefault /\ [][NextCreate]_vars

\* context.options as the predicates read it
ContextOptions(validatedOptions) ==
    [ matchingDomains |-> IF JsFalsy(validatedOptions.matchingDomains) THEN Undefined
                          ELSE Def(Strings(validatedOptions.matchingDomains)),
      skippingRequestHeaders |-> Strings(validatedOptions.skippingRequestHeaders),
      skippingCookieSessionIds |-> Strings(validatedOptions.skippingCookieSessionIds),
      skippingResponseHeaders |-> Strings(validatedOptions.skippingResponseHeaders),
      maxResponseSize |-> validatedOptions.maxResponseSize.num,
      interceptResponseStatusCodes |-> validatedOptions.interceptResponseStatusCodes.val ]

\* InterceptedDispatch of the interceptor that was created
DispatchCreated(t, u, dispatchOptions) ==
    /\ creation.result.built
    /\ DispatchWith(t, u, dispatchOptions, ContextOptions(creation.result.validatedOptions))

\* the caller pushes item onto the array (or sets a key of the object) it
\* passed as options[f]; the interceptor and its contexts see the change when
\* validatedOptions[f] is that same array
CallerMutates(f, item) ==
    /\ creation # NoCreation
    /\ creation.options[f].kind \in {"array", "object"}
    /\ \A i \in 1..Len(creation.options[f].items) : creation.options[f].items[i] # item
    /\ LET mutated == [creation.options[f] EXCEPT !.items = Append(@, item)]
           aliased == creation.result.built /\ f \in creation.result.shared
           validatedOptions ==
               IF aliased THEN [creation.result.validatedOptions EXCEPT ![f] = mutated]
               ELSE creation.result.validatedOptions
       IN  /\ creation' = [creation EXCEPT !.options[f] = mutated,
                                           !.result.validatedOptions = validatedOptions]
           /\ txn' = [t \in Tx |->
                        IF aliased /\ txn[t].phase # "none"
                        THEN [txn[t] EXCEPT !.options = ContextOptions(validatedOptions)]
                        ELSE txn[t]]
    /\ UNCHANGED << filterCfg, bitArray, addedHashes, lastHas, lastCall, hashOf >>

\* SpecOptions: an interceptor is created from valid options, the caller
\* goes on using the options object, and one transaction runs with the
\* default predicates.
CallerOptionsSet ==
    LET lists(x) == { JsUndefined, JsArray(<< x >>) }
    IN  { [ defaultTrafficInterceptorOptions EXCEPT
              !.bloomFilter = [defined |-> TRUE, size |-> JsNumber(1), errorRate |-> JsNumber(50)],
              !.maxResponseSize = JsNumber(12),
              !.trafficInspectorOptions = [defined |-> TRUE, url |-> JsString(<< "h", "t", "t", "p", ":", "/", "/", "t" >>)],
              !.labels = JsObject(<< << JsString(<< "k" >>), JsString(<< "v" >>) >> >>),
              !.matchingDomains = d,
              !.skippingRequestHeaders = q,
              !.skippingResponseHeaders = r,
              !.skippingCookieSessionIds = c ] :
            d \in lists(JsString(<< ".", "b" >>)), q \in lists(JsString(<< "p", "r", "a", "g", "m", "a" >>)),
            r \in lists(JsString(<< "e", "t", "a", "g" >>)), c \in lists(JsString(<< "s", "i", "d" >>)) }

NextOptions ==
    \/ creation = NoCreation /\ \E options \in CallerOptionsSet : Create(options)
    \/ \E d \in { x \in DispatchOptionsSet : x.method = Get /\ x.origin = Def(<< "h", "t", "t", "p", ":", "/", "/", "a", ".", "b", ":", "8" >>) } :
         DispatchCreated(Observed, FirstUrl, d)
    \/ CallerMutates("matchingDomains", JsString(<< ".", "x" >>))
    \/ CallerMutates("skippingRequestHeaders", JsString(<< "a", "c", "c", "e", "p", "t" >>))
    \/ CallerMutates("skippingResponseHeaders", JsString(<< "c", "o", "n", "t", "e", "n", "t", "-", "t", "y", "p", "e" >>))
    \/ CallerMutates("skippingCookieSessionIds", JsString(<< "a" >>))
    \/ CallerMutates("labels", << JsString(<< "l" >>), JsString(<< "v" >>) >>)
    \/ OnRequestStartDefault(Observed)
    \/ \E response \in { x \in DefaultResponses : x.statusCode = 200 } :
         OnResponseStartDefault(Observed, response)
    \/ OnResponseEnd(Observed)

SpecOptions == InitDefault /\ [][NextOptions]_vars

\* mutant: the url is built from the dispatch origin, the Origin header is not read
RequestUrl_DispatchOrigin(dispatchOptions) ==
    dispatchOptions.origin.val
        \o (IF FalsyStr(dispatchOptions.path) THEN << "/" >> ELSE dispatchOptions.path.val)

\* context.request.url: origin + (path || '/'), with the origin of extractOrigin
RequestUrl(dispatchOptions) ==
    extractOrigin(dispatchOptions.origin, dispatchOptions.headers).val
        \o (IF FalsyStr(dispatchOptions.path) THEN << "/" >> ELSE dispatchOptions.path.val)

\* InterceptedDispatch of a request whose url is spelled out
DispatchUrl(t, dispatchOptions, options) ==
    /\ \A s \in 1..(t - 1) : txn[s].phase # "none"
    /\ DispatchWith(t, RequestUrl(dispatchOptions), dispatchOptions, options)

\* SpecUrl: NumTx GET requests through one interceptor with an empty filter
\* and the default request predicate; the origin, the Origin header, the
\* path and the query of each are taken from the values below.  Every url
\* has its own digest.
UrlDispatchOptions ==
    LET ab == << "h", "t", "t", "p", ":", "/", "/", "a", ".", "b" >>
        cd == << "h", "t", "t", "p", ":", "/", "/", "c", ".", "d" >>
        targets == { << Def(ab), Undefined >>, << Def(cd), Undefined >>,
                     << Def(cd), Def(<< << UpperOrigin, ab >> >>) >>,
                     << Def(ab), Def(<< << LowerOrigin, cd >> >>) >> }
        paths == { << Def(<< >>), Undefined >>, << Def(<< "/", "p" >>), Undefined >>,
                   << Def(<< "/", "p" >>), Def(<< "a" >>) >>, << Def(<< "/", "p" >>), Def(<< "b" >>) >>,
                   << Def(<< "/", "p", "/" >>), Undefined >>, << Def(<< "/", "p", "?", "a" >>), Undefined >> }
    IN  { [method |-> Get, origin |-> o[1], headers |-> o[2], path |-> p[1], query |-> p[2]] :
            o \in targets, p \in paths }

RECURSIVE Enumerate(_)
Enumerate(set) ==
    IF set = {} THEN << >>
    ELSE LET x == CHOOSE y \in set : TRUE
         IN  << x >> \o Enumerate(set \ {x})

InitUrl ==
    /\ lastHas = << -1, FALSE >>
    /\ lastCall = NoCall
    /\ creation = NoCreation
    /\ txn = [t \in Tx |-> NewInterceptor]
    /\ filterCfg \in InterceptorSizing
    /\ \A c \in InterceptorSizing : filterCfg.size <= c.size
    /\ addedHashes = {}
    /\ bitArray = {}
    /\ LET urls == Enumerate({ RequestUrl(d) : d \in UrlDispatchOptions })
       IN  hashOf = [u \in { urls[i] : i \in 1..Len(urls) } |->
                        (3 * (CHOOSE i \in 1..Len(urls) : urls[i] = u)) % Pow2(HashBits)]

NextUrl ==
    \E t \in Tx :
        \/ \E d \in UrlDispatchOptions :
             DispatchUrl(t, d, [PlainOptions EXCEPT !.interceptResponseStatusCodes =
                                                        INTERCEPT_RESPONSE_STATUS_CODES])
        \/ OnRequestStartDefault(t)

SpecUrl == InitUrl /\ [][NextUrl]_vars

\* SpecTeardown: NumTx transactions interleaved through one interceptor, each
\* of which the host may abort and the upstream may fail; the responses carry
\* no body chunk, both predicates admit and the collector has not answered yet.
NextTeardown ==
    \E t \in Tx :
        \/ \E u \in Urls : DispatchNext(t, u)
        \/ OnRequestStart(t, TRUE)
        \/ OnResponseStart(t, TRUE, PlainResponse)
        \/ OnResponseEnd(t)
        \/ OnResponseError(t)
        \/ OnRequestAbort(t)

SpecTeardown == InitShared /\ [][NextTeardown]_vars

\* SpecLater: the observed transaction with the whole environment, and one
\* more transaction through the same interceptor, whose onRequestStart may
\* come at any point of the life of the observed one.
Later == Observed + 1

NextLater ==
    \/ Next
    \/ \E u \in Urls : Dispatch(Later, u)
    \/ \E admit \in BOOLEAN : OnRequestStart(Later, admit)

SpecLater == InitShared /\ [][NextLater]_vars

\* SpecBloom: the Bloom filter alone, under every sizing of BloomSizing.
InitBloom ==
    /\ InitCommon
    /\ filterCfg \in BloomSizing
    /\ addedHashes = {}
    /\ bitArray = {}

NextBloom ==
    \E hash \in Hashes : BloomAddStep(hash) \/ BloomHasStep(hash)

SpecBloom == InitBloom /\ [][NextBloom]_vars


(***************************************************************************)
(* Properties.                                                             *)
(***************************************************************************)
Last(q) == q[Len(q)]

Range(q) == { q[i] : i \in 1..Len(q) }

IsPrefix(p, q) == Len(p) <= Len(q) /\ SubSeq(q, 1, Len(p)) = p

\* the callbacks that return without suspending
SyncCallbacks ==
    {"onRequestStart", "onRequestUpgrade", "onResponseStart", "onResponseEnd",
     "onResponseError"}

Terminal(c) == c.phase \in {"ended", "errored"}

\* C1: every onRequestStart, onRequestUpgrade, onResponseStart, onResponseEnd
\* and onResponseError the dispatcher delivers is forwarded to the host handler
\* in the same step (before the callback returns), with the same arguments,
\* and no other step forwards one of these callbacks: each is forwarded
\* exactly once, whatever the flags, aborted and the writer are.
C1_Step(t) ==
    LET d == txn[t].delivered
        d2 == txn'[t].delivered
        h == txn[t].host
        h2 == txn'[t].host
    IN  /\ d2 # d =>
             /\ d2 = Append(d, Last(d2))
             /\ Last(d2)[1] \in SyncCallbacks => h2 = Append(h, Last(d2))
        /\ d2 = d =>
             /\ IsPrefix(h, h2)
             /\ \A i \in (Len(h) + 1)..Len(h2) : h2[i][1] \notin SyncCallbacks

C1_SyncCallbackForwardedOnce == [][\A t \in Tx : C1_Step(t)]_vars

C1_Witness ==
    \E t \in Tx :
        /\ txn[t].phase = "errored"
        /\ txn[t].aborted
        /\ txn[t].sendBody = "true"
        /\ txn[t].writer = "destroyed"
        /\ txn[t].send = "rejected"
        /\ \E response \in Responses :
               Event("onResponseStart", response.statusCode) \in Range(txn[t].host)
        /\ Last(txn[t].host) = Event("onResponseError", 0)

\* C2: a chunk whose onResponseData is suspended awaiting 'drain' has already
\* been forwarded to the host handler.
C2_ChunkForwardedBeforeDrainWait ==
    \A t \in Tx :
        \A i \in 1..Len(txn[t].waiting) :
            Event("onResponseData", txn[t].waiting[i]) \in Range(txn[t].host)

\* C3: among the transactions with the same request url, under every
\* interleaving, at most one has sendBody = true and at most one body POST is
\* issued.
SameUrl(u) == { t \in Tx : txn[t].phase # "none" /\ txn[t].url = u }

RECURSIVE BodyPostsOf(_)
BodyPostsOf(ts) ==
    IF ts = {} THEN 0
    ELSE LET t == CHOOSE x \in ts : TRUE
         IN  txn[t].bodyPosts + BodyPostsOf(ts \ {t})

C3_AtMostOneBodyPerUrl ==
    \A u \in Urls :
        /\ Cardinality({ t \in SameUrl(u) : txn[t].sendBody = "true" }) <= 1
        /\ BodyPostsOf(SameUrl(u)) <= 1

C3_Witness ==
    \E t1, t2 \in Tx :
        /\ t1 # t2
        /\ txn[t1].url = txn[t2].url
        /\ txn[t1].phase = "responding" /\ txn[t2].phase = "responding"
        /\ txn[t1].interceptResponse = "true" /\ txn[t2].interceptResponse = "true"
        /\ txn[t1].sendBody = "true" /\ txn[t1].bodyPosts = 1
        /\ txn[t2].sendBody = "false" /\ txn[t2].sendMeta = "true"
        /\ txn[t2].bodyPosts = 0

\* C4: onRequestStart of a transaction that passes the request filters sets
\* sendMeta = true, sendBody = false when the filter reports its identity hash
\* present, and otherwise inserts the hash and sets both flags to true; a
\* transaction of the first kind whose response is admitted and that ends
\* without abort has issued exactly one meta POST and no body POST.
C4_Step(t) ==
    (txn[t].phase = "idle" /\ txn'[t].phase = "started"
        /\ txn'[t].interceptRequest = "true") =>
        LET h == hashOf[txn[t].url]
        IN  IF BloomHas(bitArray, h, filterCfg)
            THEN /\ txn'[t].sendMeta = "true"
                 /\ txn'[t].sendBody = "false"
                 /\ bitArray' = bitArray
            ELSE /\ txn'[t].sendMeta = "true"
                 /\ txn'[t].sendBody = "true"
                 /\ h \in addedHashes'
                 /\ BloomHas(bitArray', h, filterCfg)

C4_End(t) ==
    (/\ txn[t].phase = "ended"
     /\ txn[t].interceptRequest = "true"
     /\ txn[t].sendBody = "false"
     /\ txn[t].interceptResponse = "true"
     /\ ~txn[t].aborted) =>
        txn[t].metaPosts = 1 /\ txn[t].bodyPosts = 0

C4_BloomHitMetaOnly ==
    /\ [](\A t \in Tx : C4_End(t))
    /\ [][\A t \in Tx : C4_Step(t)]_vars

C4_Witness ==
    \E t \in Tx :
        /\ txn[t].phase = "ended"
        /\ txn[t].interceptRequest = "true"
        /\ txn[t].sendBody = "false"
        /\ txn[t].sendMeta = "true"
        /\ txn[t].interceptResponse = "true"
        /\ ~txn[t].aborted
        /\ txn[t].nData = MaxChunks
        /\ txn[t].meta = "ok"
        /\ txn[t].metaPosts = 1

\* C5: a transaction whose request predicate returned false never issues a
\* body POST or a meta POST, whatever callbacks follow.
C5_DroppedRequestNoPost ==
    \A t \in Tx :
        txn[t].interceptRequest = "false" =>
            /\ txn[t].bodyPosts = 0 /\ txn[t].metaPosts = 0
            /\ txn[t].writer = "none" /\ txn[t].send = "none" /\ txn[t].meta = "none"

C5_Witness ==
    \E t \in Tx :
        /\ txn[t].interceptRequest = "false"
        /\ txn[t].phase = "ended"
        /\ txn[t].nData = MaxChunks
        /\ txn[t].aborted
        /\ \E response \in Responses :
               Event("onResponseStart", response.statusCode) \in Range(txn[t].delivered)

\* C6: a transaction that passed the request filters and whose response
\* predicate returned false never issues a body POST or a meta POST, with
\* sendBody true or false.
C6_RejectedResponseNoPost ==
    \A t \in Tx :
        (txn[t].interceptRequest = "true" /\ txn[t].interceptResponse = "false") =>
            /\ txn[t].bodyPosts = 0 /\ txn[t].metaPosts = 0
            /\ txn[t].writer = "none" /\ txn[t].send = "none" /\ txn[t].meta = "none"

C6_Witness ==
    \E t \in Tx :
        /\ txn[t].interceptRequest = "true"
        /\ txn[t].interceptResponse = "false"
        /\ txn[t].sendBody = "true"
        /\ txn[t].phase = "ended"
        /\ txn[t].nData = MaxChunks

\* C7: once the abort hook of a transaction has run, no step issues a meta
\* POST for it, an onResponseData delivered later leaves the hasher and the
\* mirror writer untouched, and every callback delivered later is forwarded
\* to the host handler in the same step.
C7_Step(t) ==
    txn[t].aborted =>
        /\ txn'[t].metaPosts = txn[t].metaPosts
        /\ txn'[t].delivered # txn[t].delivered =>
             /\ txn'[t].host = Append(txn[t].host, Last(txn'[t].delivered))
             /\ Last(txn'[t].delivered)[1] = "onResponseData" =>
                  /\ txn'[t].hasher = txn[t].hasher
                  /\ txn'[t].written = txn[t].written

C7_NoMirrorAfterAbort == [][\A t \in Tx : C7_Step(t)]_vars

C7_Witness ==
    \E t \in Tx :
        /\ txn[t].aborted
        /\ txn[t].phase = "ended"
        /\ txn[t].interceptResponse = "true"
        /\ txn[t].sendMeta = "true"
        /\ txn[t].nData = MaxChunks
        /\ txn[t].hasher = << >>
        /\ txn[t].metaPosts = 0
        /\ Last(txn[t].host) = Event("onResponseEnd", 0)

\* C8: in every state after the abort hook has run the transaction has no open
\* mirror writer and no body POST that is neither settled nor cancelled.
C8_AbortCancelsMirror ==
    \A t \in Tx :
        txn[t].aborted =>
            /\ txn[t].writer # "open"
            /\ txn[t].send = "pending" => Cancelled(txn[t])

\* C9: a failed body or meta POST is logged at error level, leaves no
\* unhandled rejection, is not attempted again, and the host handler has
\* received every callback of the transaction once the transaction is over.
BodyFailureLogs ==
    {"error sending body #1", "error sending body #2", "error finalizing body send"}

C9_MirrorFailureContained ==
    \A t \in Tx :
        LET c == txn[t] IN
        /\ c.send = "rejected" => c.errLog \cap BodyFailureLogs # {}
        /\ (c.send = "bad" /\ Terminal(c)) => "error sending body" \in c.errLog
        /\ c.meta \in {"bad", "rejected"} => "error sending meta" \in c.errLog
        /\ ~c.unhandled
        /\ c.bodyPosts <= 1 /\ c.metaPosts <= 1
        /\ (Terminal(c) /\ (c.send \in {"bad", "rejected"} \/ c.meta \in {"bad", "rejected"}))
              => Range(c.delivered) \subseteq Range(c.host)

\* C10: the Bloom filter has no false negative: has returns true for every
\* hash add was called with, whatever else was added before or after.
C10_NoFalseNegative ==
    \A h \in addedHashes : BloomHas(bitArray, h, filterCfg)

C10_Witness ==
    /\ Cardinality(addedHashes) = MaxAdds
    /\ lastHas[1] \in addedHashes
    /\ lastHas[2]
    /\ \E h \in Hashes \ addedHashes : ~BloomHas(bitArray, h, filterCfg)


\* C11: the identity of a transaction that passed the request filters stays in
\* the Bloom filter in every later state (response rejected, body or meta POST
\* failed, abort, error), and a transaction that passes the request filters
\* after another one with the same url did gets sendBody = false.
C11_Kept(t) ==
    txn[t].interceptRequest = "true" =>
        BloomHas(bitArray, txn[t].hash, filterCfg)

C11_Step(t) ==
    (/\ txn[t].phase = "idle" /\ txn'[t].phase = "started"
     /\ txn'[t].interceptRequest = "true"
     /\ \E s \in Tx \ {t} :
            txn[s].interceptRequest = "true" /\ txn[s].url = txn[t].url) =>
        txn'[t].sendBody = "false"

C11_FailureKeepsDedup ==
    /\ [](\A t \in Tx : C11_Kept(t))
    /\ [][\A t \in Tx : C11_Step(t)]_vars

C11_Witness ==
    /\ txn[Observed].sendBody = "true"
    /\ txn[Observed].send = "rejected"
    /\ txn[Observed].meta = "bad"
    /\ txn[Observed].phase = "ended"
    /\ txn[Later].url = txn[Observed].url
    /\ txn[Later].interceptRequest = "true"
    /\ txn[Later].sendBody = "false"


\* C12: for an admitted transaction with sendBody = true that has ended without
\* abort or error, the chunks written to the body POST stream are the chunks
\* delivered through onResponseData, in their order (all of them unless the
\* body POST was rejected meanwhile), and the one meta POST carries the
\* decimal string of the digest of exactly these chunks (the request url is
\* not part of it), the status code of the response and the number in its
\* content-length header, or 0.
ChunkSeq(n) == [i \in 1..n |-> i]

ChunkUpdates(n) == [i \in 1..n |-> << "chunk", i >>]

C12_Mirrored(c) ==
    /\ c.send # "rejected" => c.written = ChunkSeq(c.nData)
    /\ c.metaHash = ChunkUpdates(c.nData)
    /\ Len(c.metaBody) = 1
    /\ DecimalValue(c.metaBody[1].bodyHash) = Digest(ChunkUpdates(c.nData))
    /\ c.metaBody[1].code = c.response.statusCode
    /\ \/ \E i \in 1..Len(c.response.headers) :
             /\ c.response.headers[i][1] = ContentLength
             /\ NumberOf(c.response.headers[i][2]) = Num(c.metaBody[1].bodySize)
       \/ /\ c.metaBody[1].bodySize = 0
          /\ \A i \in 1..Len(c.response.headers) :
                c.response.headers[i][1] = ContentLength =>
                    NumberOf(c.response.headers[i][2]) = NaN

Started(c) == c.phase \notin {"none", "idle"}

Dropped(c) ==
    /\ c.interceptRequest = "false"
    /\ c.sendBody = "false" /\ c.sendMeta = "false"
    /\ c.bodyPosts = 0 /\ c.metaPosts = 0

C13_NonGetDropped ==
    \A t \in Tx :
        (Started(txn[t]) /\ txn[t].dispatchOptions.method # Get) => Dropped(txn[t])

C13_Witness ==
    \E t \in Tx :
        /\ txn[t].phase = "ended"
        /\ txn[t].nData = MaxChunks
        /\ txn[t].request.method = << "g", "e", "t" >>
        /\ txn[t].request.headers = Def(<< >>)
        /\ ~txn[t].options.matchingDomains.defined
        /\ interceptResponse(txn[t])
        /\ Dropped(txn[t])


\* C14: with the default request predicate, a transaction one of whose request
\* header keys, lowercased, is in skippingRequestHeaders is dropped; the result
\* of the predicate is the same for every order of the header keys; a GET
\* request without headers or with an empty header map, whose domain passes,
\* is admitted.
HasSkippingRequestHeader(c) ==
    /\ c.request.headers.defined
    /\ \E i \in 1..Len(c.request.headers.val) :
          includes(c.options.skippingRequestHeaders,
                   toLowerCase(c.request.headers.val[i][1]))

Reordered(c, p) ==
    [c EXCEPT !.request.headers =
        Def([i \in 1..Len(c.request.headers.val) |-> c.request.headers.val[p[i]]])]

C14_OrderInsensitive(c) ==
    c.request.headers.defined =>
        \A p \in Permutations(1..Len(c.request.headers.val)) :
            interceptRequest(Reordered(c, p)) = interceptRequest(c)

C14_SkippingRequestHeader ==
    \A t \in Tx :
        Started(txn[t]) =>
            /\ HasSkippingRequestHeader(txn[t]) => Dropped(txn[t])
            /\ C14_OrderInsensitive(txn[t])
            /\ (/\ txn[t].request.method = Get
                /\ interceptByDomain(txn[t].request.domain, txn[t].options.matchingDomains)
                /\ ~txn[t].request.headers.defined \/ txn[t].request.headers.val = << >>)
               => txn[t].interceptRequest = "true"

C14_Witness ==
    \E t \in Tx :
        /\ txn[t].phase = "ended"
        /\ txn[t].request.method = Get
        /\ ~txn[t].options.matchingDomains.defined
        /\ txn[t].request.headers = Def(<< << << "a", "c", "c", "e", "p", "t" >>, << "x" >> >>, << << "P", "R", "A", "G", "M", "A" >>, << "x" >> >> >>)
        /\ interceptResponse(txn[t])
        /\ Dropped(txn[t])


\* C15: with the default request predicate, a GET request that carries a Cookie
\* header (key in any letter case), passes the domain check and has no header
\* of skippingRequestHeaders is dropped iff the name of one of its cookies,
\* lowercased, is in skippingCookieSessionIds.
CookieHeaders(c) ==
    { i \in 1..Len(c.request.headers.val) :
        toLowerCase(c.request.headers.val[i][1]) = Cookie }

C15_OnlyCookiesDecide(c) ==
    /\ Started(c)
    /\ c.request.method = Get
    /\ interceptByDomain(c.request.domain, c.options.matchingDomains)
    /\ c.request.headers.defined
    /\ ~HasSkippingRequestHeader(c)
    /\ CookieHeaders(c) # {}

C15_SessionCookieDrops ==
    /\ parseCookie(<< "a", "=", "1", ";", " ", "S", "I", "D", "=", "2" >>) = { << "a" >>, << "S", "I", "D" >> }
    /\ parseCookie(<< "a", "=", "s", "i", "d", ";", "s", "i", "d", "x", "=", "1", ";", " ", "s", "i", "d" >>) = { << "a" >>, << "s", "i", "d", "x" >> }
    /\ parseCookie(<< " ", "s", "i", "d", " ", "=", "1" >>) = { << "s", "i", "d" >> }
    /\ \A t \in Tx :
        C15_OnlyCookiesDecide(txn[t]) =>
            (txn[t].interceptRequest = "false" <=>
                \E i \in CookieHeaders(txn[t]) :
                    \E id \in parseCookie(txn[t].request.headers.val[i][2]) :
                        includes(txn[t].options.skippingCookieSessionIds, toLowerCase(id)))

C15_Witness ==
    \E t \in Tx :
        /\ C15_OnlyCookiesDecide(txn[t])
        /\ txn[t].phase = "ended"
        /\ txn[t].request.headers = Def(<< << << "C", "o", "o", "k", "i", "e" >>, << "a", "=", "1", ";", " ", "S", "I", "D", "=", "2" >> >> >>)
        /\ interceptResponse(txn[t])
        /\ Dropped(txn[t])


\* C16: with the default request predicate and matchingDomains configured, the
\* domain of a transaction is the host of its Origin header when it has one,
\* otherwise of the dispatch origin, with a dot in front and without scheme and
\* port; the transaction passes the domain check iff this domain ends with a
\* configured suffix, and is dropped without any POST when it does not.  When
\* matchingDomains is absent every domain passes.
C16_Host(origin) ==
    CASE origin = << "h", "t", "t", "p", ":", "/", "/", "a", ".", "b", ":", "8" >> -> << "a", ".", "b" >>
      [] origin = << "h", "t", "t", "p", "s", ":", "/", "/", "c", ".", "d" >> -> << "c", ".", "d" >>
      [] origin = << "x", ".", "a", ".", "b", ":", "8" >> -> << "x", ".", "a", ".", "b" >>
      [] origin = << "h", "t", "t", "p", ":", "/", "/", "c", ".", "d", ":", "8" >> -> << "c", ".", "d" >>
      [] origin = << "a", ".", "b" >> -> << "a", ".", "b" >>

C16_OriginHeaders(c) ==
    IF ~c.dispatchOptions.headers.defined THEN {}
    ELSE { i \in 1..Len(c.dispatchOptions.headers.val) :
             c.dispatchOptions.headers.val[i][1] \in { UpperOrigin, LowerOrigin } }

C16_Domain(c) ==
    << "." >> \o C16_Host(
        IF C16_OriginHeaders(c) # {}
        THEN c.dispatchOptions.headers.val[CHOOSE i \in C16_OriginHeaders(c) : TRUE][2]
        ELSE c.dispatchOptions.origin.val)

C16_Matches(c) ==
    \E i \in 1..Len(c.options.matchingDomains.val) :
        endsWith(C16_Domain(c), c.options.matchingDomains.val[i])

C16_RestPasses(c) ==
    /\ c.request.method = Get
    /\ ~c.request.headers.defined
         \/ RequestHeadersPass(c.request.headers.val, 1, c.options)

C16_MatchingDomains ==
    \A t \in Tx :
        Started(txn[t]) =>
            IF txn[t].options.matchingDomains.defined
            THEN /\ txn[t].request.domain = Def(C16_Domain(txn[t]))
                 /\ ~C16_Matches(txn[t]) => Dropped(txn[t])
                 /\ (C16_Matches(txn[t]) /\ C16_RestPasses(txn[t]))
                        => txn[t].interceptRequest = "true"
            ELSE C16_RestPasses(txn[t]) => txn[t].interceptRequest = "true"

C16_Witness ==
    \E t \in Tx :
        /\ txn[t].phase = "ended"
        /\ txn[t].dispatchOptions.method = Get
        /\ txn[t].dispatchOptions.origin = Def(<< "h", "t", "t", "p", ":", "/", "/", "a", ".", "b", ":", "8" >>)
        /\ txn[t].dispatchOptions.headers = Def(<< << << "O", "r", "i", "g", "i", "n" >>, << "h", "t", "t", "p", ":", "/", "/", "c", ".", "d", ":", "8" >> >> >>)
        /\ txn[t].options.matchingDomains = Def(<< << ".", "b" >> >>)
        /\ txn[t].request.domain = Def(<< ".", "c", ".", "d" >>)
        /\ interceptResponse(txn[t])
        /\ Dropped(txn[t])


\* C17: interceptByDomain(domain, suffixes) returns true when suffixes is unset
\* or an empty list, false when suffixes is not empty and domain is undefined,
\* and otherwise true iff domain ends with one of the suffixes.
C17_MatchesDomain ==
    lastCall.fn = "interceptByDomain" =>
        LET domain == lastCall.args[1]
            suffixes == lastCall.args[2]
        IN  lastCall.result =
                IF ~suffixes.defined \/ suffixes.val = << >> THEN TRUE
                ELSE IF ~domain.defined THEN FALSE
                ELSE \E i \in 1..Len(suffixes.val) : endsWith(domain.val, suffixes.val[i])

\* C18: extractDomain returns undefined for an undefined or empty origin, and
\* for scheme://host[:port], host:port and host, the scheme being http or
\* https, a dot followed by the host.
C18_ExtractDomain ==
    lastCall.fn = "extractDomain" =>
        IF ~lastCall.args[1].defined \/ lastCall.args[1].val = << >>
        THEN lastCall.result = Undefined
        ELSE lastCall.result = Def(<< "." >> \o lastCall.args[2][2])

C18_Witness ==
    /\ lastCall.fn = "extractDomain"
    /\ lastCall.args[1] = Def(<< "h", "t", "t", "p", "s", ":", "/", "/", "x", ".", "a", ".", "b", ":", "8", "0" >>)
    /\ lastCall.result = Def(<< ".", "x", ".", "a", ".", "b" >>)


\* C19: with the default response predicate, a response whose status code is
\* rejected by interceptResponseStatusCodes (by default every code outside
\* 200..299) or one of whose header keys, lowercased, is in
\* skippingResponseHeaders is rejected, and neither a body POST nor a meta POST
\* is issued for the transaction.
Responded(c) == c.phase \in {"responding", "ended"}

C19_Rejecting(c) ==
    \/ ~(c.response.statusCode >= 200 /\ c.response.statusCode < 300)
    \/ \E i \in 1..Len(c.response.headers) :
          includes(c.options.skippingResponseHeaders,
                   toLowerCase(c.response.headers[i][1]))

C19_StatusOrHeaderRejects ==
    \A t \in Tx :
        (Responded(txn[t]) /\ C19_Rejecting(txn[t])) =>
            /\ ~interceptResponse(txn[t])
            /\ txn[t].interceptRequest = "true" => txn[t].interceptResponse = "false"
            /\ txn[t].interceptResponse # "true"
            /\ txn[t].bodyPosts = 0 /\ txn[t].metaPosts = 0

C19_Witness ==
    \E t \in Tx :
        /\ txn[t].phase = "ended"
        /\ txn[t].nData = MaxChunks
        /\ txn[t].interceptRequest = "true"
        /\ txn[t].sendBody = "true"
        /\ txn[t].response = [statusCode |-> 200, headers |-> << << << "e", "t", "a", "g" >>, << "x" >> >>, << << "c", "o", "n", "t", "e", "n", "t", "-", "l", "e", "n", "g", "t", "h" >>, << "5" >> >> >>]
        /\ txn[t].interceptResponse = "false"
        /\ txn[t].bodyPosts = 0 /\ txn[t].metaPosts = 0


\* C20: with the default response predicate, a response whose Content-Length
\* is strictly greater than maxResponseSize is rejected, and a response whose
\* Content-Length is equal to maxResponseSize or smaller is not rejected for
\* its size: when its status code is accepted and it carries no skipping
\* header and no session cookie, it is admitted.
C20_Length(c) == NumberOfHeader(c.response.headers, ContentLength)

C20_NothingElseRejects(c) ==
    /\ StatusAccepted(c.response.statusCode, c.options)
    /\ \A i \in 1..Len(c.response.headers) :
         LET header == toLowerCase(c.response.headers[i][1])
         IN  /\ ~includes(c.options.skippingResponseHeaders, header)
             /\ header # SetCookie

C20_MaxResponseSize ==
    \A t \in Tx :
        LET c == txn[t]
            n == C20_Length(c)
        IN  (Responded(c) /\ c.interceptRequest = "true" /\ ~n.nan) =>
                /\ n.value > c.options.maxResponseSize =>
                       /\ c.interceptResponse = "false"
                       /\ c.bodyPosts = 0 /\ c.metaPosts = 0
                /\ (n.value <= c.options.maxResponseSize /\ C20_NothingElseRejects(c)) =>
                       c.interceptResponse = "true"

C20_Witness ==
    \E t \in Tx :
        /\ txn[t].phase = "ended"
        /\ txn[t].interceptRequest = "true"
        /\ txn[t].response = [statusCode |-> 200, headers |-> << << << "c", "o", "n", "t", "e", "n", "t", "-", "l", "e", "n", "g", "t", "h" >>, << "1", "2" >> >> >>]
        /\ C20_Length(txn[t]) = Num(txn[t].options.maxResponseSize)
        /\ txn[t].interceptResponse = "true"
        /\ txn[t].bodyPosts = 1


\* C21: with the default response predicate, a response that has no
\* Content-Length header and passes the status, header and cookie checks is
\* admitted.
C21_HasContentLength(c) ==
    \E i \in 1..Len(c.response.headers) :
        toLowerCase(c.response.headers[i][1]) = ContentLength

C21_AbsentContentLengthAdmitted ==
    \A t \in Tx :
        (/\ Responded(txn[t])
         /\ txn[t].interceptRequest = "true"
         /\ ~C21_HasContentLength(txn[t])
         /\ C20_NothingElseRejects(txn[t])) =>
            txn[t].interceptResponse = "true"


\* C22: createTrafficInterceptor throws, and returns no interceptor, when
\* bloomFilter.size is not a number greater than 0, when bloomFilter.errorRate
\* is not strictly between 0 and 1, when maxResponseSize is given and is not a
\* number greater than 0, when the url of the traffic inspector is missing or
\* empty, or when matchingDomains is given and is not a non-empty array of
\* non-empty strings; with maxResponseSize undefined and the rest valid, the
\* interceptor is built with the default maxResponseSize.
Called == creation # NoCreation

C22_Positive(v) == v.kind = "number" /\ ~v.nan /\ v.num > 0

C22_Given(v) == v.kind # "undefined"

C22_SizeValid(o) == o.bloomFilter.defined /\ C22_Positive(o.bloomFilter.size)

C22_ErrorRateValid(o) ==
    /\ o.bloomFilter.defined
    /\ C22_Positive(o.bloomFilter.errorRate)
    /\ o.bloomFilter.errorRate.num < 100

C22_UrlValid(o) ==
    /\ o.trafficInspectorOptions.defined
    /\ o.trafficInspectorOptions.url.kind = "string"
    /\ o.trafficInspectorOptions.url.str # << >>

C22_DomainsValid(o) ==
    C22_Given(o.matchingDomains) =>
        /\ o.matchingDomains.kind = "array"
        /\ o.matchingDomains.items # << >>
        /\ \A i \in 1..Len(o.matchingDomains.items) :
             /\ o.matchingDomains.items[i].kind = "string"
             /\ o.matchingDomains.items[i].str # << >>

C22_MaxValid(o) == C22_Given(o.maxResponseSize) => C22_Positive(o.maxResponseSize)

C22_InvalidOptionsRejected ==
    LET o == creation.options
        r == creation.result
    IN  Called =>
            /\ ~(/\ C22_SizeValid(o) /\ C22_ErrorRateValid(o) /\ C22_MaxValid(o)
                 /\ C22_UrlValid(o) /\ C22_DomainsValid(o))
                    => ~r.built /\ r.thrown # "none"
            /\ (/\ C22_SizeValid(o) /\ C22_ErrorRateValid(o) /\ C22_UrlValid(o)
                /\ C22_DomainsValid(o)
                /\ ~C22_Given(o.maxResponseSize)
                /\ ~structuredCloneThrows(o))
                    => /\ r.built
                       /\ r.validatedOptions.maxResponseSize = JsNumber(DEFAULT_MAX_RESPONSE_SIZE)


\* C23: when the options, valid otherwise, supply an interceptRequest or an
\* interceptResponse function, createTrafficInterceptor returns an interceptor
\* and that interceptor holds the supplied function, which its transactions
\* call in place of the default predicate.
C23_CustomPredicateAccepted ==
    LET o == creation.options
        r == creation.result
    IN  (/\ Called
         /\ C22_SizeValid(o) /\ C22_ErrorRateValid(o) /\ C22_UrlValid(o)
         /\ C22_DomainsValid(o)
         /\ ~C22_Given(o.maxResponseSize) \/ C22_Positive(o.maxResponseSize)
         /\ o.interceptRequest.kind = "function" \/ o.interceptResponse.kind = "function") =>
            /\ r.built
            /\ r.validatedOptions.interceptRequest = o.interceptRequest
            /\ r.validatedOptions.interceptResponse = o.interceptResponse


\* C24: the options of an interceptor are a deep copy taken at construction:
\* when the caller later mutates the options object it passed (its labels,
\* matchingDomains, skippingRequestHeaders, skippingResponseHeaders or
\* skippingCookieSessionIds), the options of the interceptor and of its
\* contexts stay what they were, and so does the decision of the request
\* predicate for a transaction that has not started.
C24_Step ==
    (creation.result.built /\ creation'.options # creation.options) =>
        /\ creation'.result = creation.result
        /\ \A t \in Tx :
             /\ txn'[t].options = txn[t].options
             /\ txn[t].phase = "idle" =>
                    interceptRequest(ReadRequest(txn'[t])) = interceptRequest(ReadRequest(txn[t]))

C24_OptionsDeepCopied == [][C24_Step]_vars


\* C25: the identity hash does not depend on the query string: two admitted
\* transactions with the same origin, headers and path, whose urls differ at
\* most in the query string (carried in dispatchOptions.path after "?" or in
\* dispatchOptions.query), have the same hash, and only one of them is
\* mirrored with its body.
Admitted(c) == c.interceptRequest = "true"

C25_PathOf(c) ==
    LET path == IF FalsyStr(c.dispatchOptions.path) THEN << "/" >> ELSE c.dispatchOptions.path.val
        mark == indexOf(path, "?", 0)
    IN  IF mark = -1 THEN path ELSE slice(path, 0, mark)

C25_QueryIndependent ==
    \A t1, t2 \in Tx :
        (/\ t1 # t2
         /\ Admitted(txn[t1]) /\ Admitted(txn[t2])
         /\ txn[t1].dispatchOptions.origin = txn[t2].dispatchOptions.origin
         /\ txn[t1].dispatchOptions.headers = txn[t2].dispatchOptions.headers
         /\ C25_PathOf(txn[t1]) = C25_PathOf(txn[t2])) =>
            /\ txn[t1].hash = txn[t2].hash
            /\ ~(txn[t1].sendBody = "true" /\ txn[t2].sendBody = "true")

\* C26: the Bloom key of a transaction is the hash of the string made of the
\* value of the Origin header when there is one, else of the dispatch origin,
\* followed by the path, or by "/" when the path is empty: two admitted
\* transactions have the same key iff these strings are equal, and of two
\* transactions with equal strings at most one is mirrored with its body.
C26_Key(c) ==
    LET headers == c.dispatchOptions.headers
        named == IF headers.defined
                 THEN { i \in 1..Len(headers.val) :
                          headers.val[i][1] \in { UpperOrigin, LowerOrigin } }
                 ELSE {}
        origin == IF named # {} THEN headers.val[CHOOSE i \in named : TRUE][2]
                  ELSE c.dispatchOptions.origin.val
    IN  origin \o (IF c.dispatchOptions.path.val = << >> THEN << "/" >>
                   ELSE c.dispatchOptions.path.val)

C26_ExactStringIdentity ==
    \A t1, t2 \in Tx :
        (t1 # t2 /\ Admitted(txn[t1]) /\ Admitted(txn[t2])) =>
            /\ (txn[t1].hash = txn[t2].hash) <=> (C26_Key(txn[t1]) = C26_Key(txn[t2]))
            /\ C26_Key(txn[t1]) = C26_Key(txn[t2]) =>
                   ~(txn[t1].sendBody = "true" /\ txn[t2].sendBody = "true")

C26_Witness ==
    \E t1, t2 \in Tx :
        /\ Admitted(txn[t1]) /\ Admitted(txn[t2])
        /\ txn[t1].dispatchOptions.origin # txn[t2].dispatchOptions.origin
        /\ txn[t1].dispatchOptions.path = Def(<< "/", "p" >>)
        /\ C26_Key(txn[t1]) = C26_Key(txn[t2])
        /\ txn[t1].hash = txn[t2].hash
        /\ txn[t1].sendBody = "true" /\ txn[t2].sendBody = "false"
        /\ txn[t2].sendMeta = "true"


\* C27: the host handler receives the body callbacks of a transaction in the
\* order the dispatcher delivered them: the onResponseData and onResponseEnd
\* callbacks forwarded so far are a prefix of those delivered, so chunks are
\* forwarded first in, first out and onResponseEnd only after every chunk
\* delivered before it.
C27_IsBodyCallback(ev) == ev[1] \in {"onResponseData", "onResponseEnd"}

C27_HostOrder ==
    \A t \in Tx :
        IsPrefix(SelectSeq(txn[t].host, C27_IsBodyCallback),
                 SelectSeq(txn[t].delivered, C27_IsBodyCallback))


\* C28: in every reachable state of every context, sendBody = true implies
\* sendMeta = true, and interceptRequest = false implies sendBody = false and
\* sendMeta = false, whatever the request and response predicates return.
C28_FlagsConsistent ==
    \A t \in Tx :
        /\ txn[t].sendBody = "true" => txn[t].sendMeta = "true"
        /\ txn[t].interceptRequest = "false" =>
               txn[t].sendBody = "false" /\ txn[t].sendMeta = "false"

C28_Witness ==
    \E t \in Tx :
        /\ txn[t].phase = "ended"
        /\ txn[t].interceptRequest = "true"
        /\ txn[t].interceptResponse = "true"
        /\ txn[t].sendBody = "true" /\ txn[t].sendMeta = "true"
        /\ txn[t].bodyPosts = 1 /\ txn[t].metaPosts = 1


\* C29: a transaction whose request was admitted, whose identity was not in
\* the Bloom filter (sendBody = true) and whose response was admitted attempts
\* exactly one body POST, and no transaction ever attempts more than one body
\* POST or more than one meta POST, whatever callbacks are delivered.
C29_AtMostOnePostEach ==
    \A t \in Tx :
        /\ txn[t].bodyPosts <= 1
        /\ txn[t].metaPosts <= 1
        /\ (/\ txn[t].interceptRequest = "true"
            /\ txn[t].sendBody = "true"
            /\ txn[t].interceptResponse = "true") => txn[t].bodyPosts = 1
        /\ txn[t].bodyPosts = 1 =>
               /\ txn[t].interceptRequest = "true"
               /\ txn[t].sendBody = "true"
               /\ txn[t].interceptResponse = "true"

C29_Witness ==
    \E t \in Tx :
        /\ txn[t].phase = "errored"
        /\ txn[t].aborted
        /\ txn[t].nData = MaxChunks
        /\ txn[t].sendBody = "true"
        /\ txn[t].interceptResponse = "true"
        /\ txn[t].bodyPosts = 1
        /\ txn[t].metaPosts = 0
        /\ txn[t].send \in {"bad", "rejected"}


\* C30: the bits of the Bloom filter change only in onRequestStart of a
\* transaction whose request predicate returned true and whose identity the
\* filter did not report present; every other callback, and every settling
\* of a POST, leaves the filter as it was.
C30_Step ==
    bitArray' # bitArray =>
        \E t \in Tx :
            /\ txn[t].phase = "idle" /\ txn'[t].phase = "started"
            /\ txn'[t].interceptRequest = "true"
            /\ ~BloomHas(bitArray, hashOf[txn[t].url], filterCfg)
            /\ bitArray' = BloomAdd(bitArray, hashOf[txn[t].url], filterCfg)
            /\ filterCfg' = filterCfg

C30_FilterChangesOnlyOnMiss == [][C30_Step]_vars

C30_Witness ==
    \E t \in Tx :
        /\ txn[t].phase = "ended"
        /\ txn[t].interceptRequest = "true"
        /\ txn[t].sendBody = "true"
        /\ txn[t].nData = MaxChunks
        /\ txn[t].send = "ok" /\ txn[t].meta = "rejected"
        /\ hashOf[txn[t].url] \in addedHashes
        /\ BloomHas(bitArray, hashOf[txn[t].url], filterCfg)

\* C31 (as stated): once the response predicate has returned false for a
\* request-admitted transaction, its context has sendBody = false and
\* sendMeta = false.
C31_FlagsResetOnResponseSkip ==
    \A t \in Tx :
        (/\ Responded(txn[t])
         /\ txn[t].interceptRequest = "true"
         /\ txn[t].interceptResponse = "false") =>
            txn[t].sendBody = "false" /\ txn[t].sendMeta = "false"

\* C31 (amended): once the response predicate has returned false for a
\* request-admitted transaction, its context has interceptResponse = false,
\* sendMeta and sendBody keep what onRequestStart gave them (sendMeta = true),
\* and the transaction has no mirror writer, no body POST and no meta POST.
C31_ResponseSkipSendsNothing ==
    \A t \in Tx :
        (/\ Responded(txn[t])
         /\ txn[t].interceptRequest = "true"
         /\ txn[t].interceptResponse = "false") =>
            /\ txn[t].sendMeta = "true"
            /\ txn[t].sendBody \in {"true", "false"}
            /\ txn[t].writer = "none"
            /\ txn[t].send = "none"
            /\ txn[t].bodyPosts = 0
            /\ txn[t].metaPosts = 0

C31_Witness ==
    \E t \in Tx :
        /\ txn[t].phase = "ended"
        /\ ~txn[t].aborted
        /\ txn[t].interceptRequest = "true"
        /\ txn[t].interceptResponse = "false"
        /\ txn[t].sendBody = "true"
        /\ txn[t].nData = MaxChunks

\* C32: onResponseEnd of a transaction with sendBody = true closes the mirror
\* writer and issues the meta POST only after the body POST has settled; a
\* failed body POST is logged and the meta POST is issued all the same.
C32_Step ==
    \A t \in Tx :
        (/\ txn[t].phase = "responding" /\ txn'[t].phase = "ended"
         /\ ~EndPassThrough(txn[t])
         /\ txn[t].sendBody = "true") =>
            /\ txn[t].writer = "open" => txn'[t].writer = "ended"
            /\ txn'[t].metaPosts = txn[t].metaPosts + 1
            /\ txn'[t].send \in {"ok", "bad", "rejected"}
            /\ txn'[t].send = "bad" => "error sending body" \in txn'[t].errLog

C32_MetaAfterBodySettled == [][C32_Step]_vars

\* C33: after onResponseError of a transaction whose mirror body POST was
\* open, the mirror writer is destroyed, the AbortController of the body
\* POST is aborted, no meta POST has been issued for the transaction, and the
\* error has been forwarded to the host handler.
C33_ErrorCancelsBodyPost ==
    \A t \in Tx :
        (txn[t].phase = "errored" /\ txn[t].bodyPosts = 1) =>
            /\ txn[t].writer = "destroyed"
            /\ txn[t].bodySendController = "aborted"
            /\ txn[t].metaPosts = 0
            /\ Last(txn[t].host) = Event("onResponseError", 0)

\* C34: the abort or the error of one transaction changes nothing of any
\* other transaction of the same interceptor (flags, hasher, mirror writer,
\* body POST, meta POST) and nothing of the shared Bloom filter.
C34_TornDown(t) ==
    \/ ~txn[t].aborted /\ txn'[t].aborted
    \/ txn[t].phase # "errored" /\ txn'[t].phase = "errored"

C34_Step ==
    \A t \in Tx :
        C34_TornDown(t) =>
            /\ \A s \in Tx \ {t} : txn'[s] = txn[s]
            /\ bitArray' = bitArray
            /\ addedHashes' = addedHashes
            /\ filterCfg' = filterCfg

C34_TeardownIsLocal == [][C34_Step]_vars

C34_Witness ==
    \E t, s \in Tx :
        /\ t # s
        /\ txn[t].aborted /\ txn[t].writer = "destroyed"
        /\ txn[t].bodySendController = "aborted"
        /\ ~txn[s].aborted
        /\ txn[s].phase = "ended"
        /\ txn[s].writer = "ended" /\ txn[s].send = "pending"
        /\ txn[s].bodySendController = "live"
        /\ txn[s].meta = "pending"

\* C35: once onRequestStart has installed the abort hook, controller.abort
\* still aborts the host transaction: after the call the host handler is
\* given no further response data and no response end, only the error that
\* ends an aborted transaction.
C35_Step ==
    \A t \in Tx :
        (txn[t].abortHook /\ txn[t].aborted /\ txn'[t].host # txn[t].host) =>
            Last(txn'[t].host)[1] = "onResponseError"

C35_AbortStillAbortsHost == [][C35_Step]_vars

\* C36: extractOrigin returns the value of the Origin request header when the
\* headers hold one under any letter case of the name (Origin, origin,
\* ORIGIN, ...), and the dispatch origin when there is no such header or no
\* headers at all.
C36_OriginKeys(headers) ==
    { i \in 1..Len(headers) : toLowerCase(headers[i][1]) = LowerOrigin }

C36_AnyCaseOrigin ==
    lastCall.fn = "extractOrigin" =>
        LET origin == lastCall.args[1]
            headers == lastCall.args[2]
        IN  IF headers.defined /\ C36_OriginKeys(headers.val) # {}
            THEN \E i \in C36_OriginKeys(headers.val) :
                     lastCall.result = Def(headers.val[i][2])
            ELSE lastCall.result = origin

\* C37: for every unsigned hash h of the hash width, the k positions the
\* Bloom filter derives are those of the reference derivation that, before
\* each of the k steps, replaces h by its left rotation by one bit within the
\* hash width (the value stays below 2^width) and emits h mod m; every
\* position lies in 0..m-1.
C37_RotateLeft(h) == ((2 * h) % Pow2(HashBits)) + (h \div Pow2(HashBits - 1))

RECURSIVE C37_Reference(_, _, _)
C37_Reference(h, i, cfg) ==
    IF i >= cfg.numHashFunctions THEN << >>
    ELSE LET r == C37_RotateLeft(h)
         IN  << r % cfg.bitArraySize >> \o C37_Reference(r, i + 1, cfg)

C37_PositionsAreRotations ==
    lastHas[1] \in Hashes =>
        LET positions == getPositions(lastHas[1], filterCfg)
        IN  /\ positions = C37_Reference(lastHas[1], 0, filterCfg)
            /\ Len(positions) = filterCfg.numHashFunctions
            /\ \A i \in 1..Len(positions) : positions[i] \in 0..(filterCfg.bitArraySize - 1)

\* C38: the Bloom filter is append-only and order-insensitive: no operation
\* clears a set bit, has never changes the bit vector, and after any sequence
\* of add calls the bit vector is the union of the positions of the hashes
\* added, so that adding a hash again, or adding two hashes in the other
\* order, leaves the same bit vector.
C38_PositionsOf(hashes) ==
    UNION { Range(getPositions(h, filterCfg)) : h \in hashes }

C38_Step ==
    /\ bitArray \subseteq bitArray'
    /\ lastHas' # lastHas => bitArray' = bitArray
    /\ bitArray' = C38_PositionsOf(addedHashes')
    /\ \A a \in addedHashes' : BloomAdd(bitArray', a, filterCfg) = bitArray'

C38_AppendOnlyOrderFree == [][C38_Step]_vars

C38_Witness ==
    /\ Cardinality(addedHashes) = MaxAdds
    /\ Cardinality(bitArray) >= 3
    /\ bitArray # 0..(filterCfg.bitArraySize - 1)
    /\ lastHas[1] \in addedHashes
    /\ lastHas[2]

\* C39: every mirror writer opened in onResponseStart is eventually ended or
\* destroyed, and its body POST eventually settles, in every complete
\* lifecycle of the transaction and for every order of abort relative to
\* onResponseStart.
C39_MirrorReleased ==
    \A t \in Tx :
        /\ (txn[t].writer = "open") ~> (txn[t].writer \in {"ended", "destroyed"})
        /\ (txn[t].send = "pending") ~> (txn[t].send \in {"ok", "bad", "rejected"})

\* C40: in every reachable state a transaction has a mirror writer or a body
\* POST only if its interceptRequest, interceptResponse and sendBody are all
\* true and the transaction itself inserted its identity into the Bloom
\* filter; the response predicate is evaluated only for request-admitted
\* transactions; sendBody and sendMeta never change once onRequestStart has
\* returned.
C40_Mirroring(c) == c.writer # "none" \/ c.send # "none" \/ c.bodyPosts > 0

C40_Step ==
    \A t \in Tx :
        LET c == txn[t]
            d == txn'[t]
            h == hashOf[c.url]
        IN  /\ C40_Mirroring(d) =>
                   /\ d.interceptRequest = "true"
                   /\ d.interceptResponse = "true"
                   /\ d.sendBody = "true"
                   /\ h \in addedHashes'
                   /\ BloomHas(bitArray', h, filterCfg)
            /\ (c.phase = "idle" /\ d.phase = "started" /\ d.sendBody = "true") =>
                   /\ ~BloomHas(bitArray, h, filterCfg)
                   /\ bitArray' = BloomAdd(bitArray, h, filterCfg)
            /\ d.interceptResponse # c.interceptResponse =>
                   /\ c.interceptRequest = "true"
                   /\ c.phase = "started" /\ d.phase = "responding"
            /\ c.phase \notin {"none", "idle"} =>
                   d.sendBody = c.sendBody /\ d.sendMeta = c.sendMeta

C40_MirrorOnlyWhenAdmitted == [][C40_Step]_vars

C40_Witness ==
    \E t \in Tx :
        /\ txn[t].phase = "ended"
        /\ txn[t].writer = "ended"
        /\ txn[t].send = "bad"
        /\ txn[t].meta = "ok"
        /\ txn[t].interceptRequest = "true"
        /\ txn[t].interceptResponse = "true"
        /\ txn[t].sendBody = "true"
        /\ hashOf[txn[t].url] \in addedHashes

=============================================================================
